---- MODULE Spec2Model ----
(***************************************************************************)
(* The hub-state client of basic_bot_react (src/src/utils/hubMessages.ts): *)
(* a reconnecting WebSocket client that mirrors hub state, notifies        *)
(* listeners, resolves full-state requests and runs a ping/staleness       *)
(* monitor.  Every action is one task of the single-threaded event loop:   *)
(* a public call, a socket event handler or a timer callback, run to       *)
(* completion.  The task in which a connection fails is two actions, the   *)
(* error handler and then the close handler, with no other task between.   *)
(* Time is kept relative: every timer holds the milliseconds left until it *)
(* fires and sinceHubUpdate holds Date.now() - lastHubUpdate.              *)
(***************************************************************************)
EXTENDS Integers, Sequences, FiniteSets, TLC

\* ---------------------------------------------------------------- constants

HUB_PING_INTERVAL == 1000
MIN_HUB_UPDATE_INTERVAL == 1500
DEFAULT_BB_HUB_PORT == 5100
\* the grace delay of the open handler's setTimeout
HANDSHAKE_DELAY == 100
\* the delay of delayedConnectToHub's setTimeout
RECONNECT_DELAY == 5000
\* const __hub_port: number = DEFAULT_BB_HUB_PORT
__hub_port == DEFAULT_BB_HUB_PORT
\* the delay of sendHubStateUpdate's setTimeout
UPDATE_RETRY_DELAY == 1000
\* a custom port, as in <HubStateProvider port={5200} autoReconnect={false}>
CUSTOM_PORT == 5200

\* ------------------------------------------------------------------- bounds

\* connectToHub calls in one run (each creates at most one socket)
MaxSessions == 2
\* getStateFromCentralHub calls in one run
MaxCalls == 2
\* registered listeners at one time
MaxListeners == 1
\* registered listeners at one time where the registry itself is examined
MaxRegistered == 2
\* sendHubStateUpdate calls in one run
MaxUpdates == 2
\* runs of HubStateProvider's effect (mounts and changes of props) in one run
MaxEffects == 3
\* WebRTCClient.start() calls on one client
MaxStarts == 2

\* The quantum by which the clock advances when no timer is due sooner: the
\* gap between the ping interval and the staleness threshold.
TimeStep == MIN_HUB_UPDATE_INTERVAL - HUB_PING_INTERVAL
\* sinceHubUpdate is compared with MIN_HUB_UPDATE_INTERVAL at monitor ticks,
\* which are HUB_PING_INTERVAL apart: beyond their sum it need not be told apart
AgeCap == MIN_HUB_UPDATE_INTERVAL + HUB_PING_INTERVAL + TimeStep

\* a timer handle that is not set (hubMonitor = null, no setTimeout pending)
NoTimer == 0 - 1

\* The options connectToHub is called with.  `state` names the object passed:
\* the exported DEFAULT_HUB_STATE (the default, and what HubStateProvider
\* passes) or the mirror itself (getLocalState()).
ConnectOptions ==
    { [port |-> DEFAULT_BB_HUB_PORT, state |-> "DEFAULT", autoReconnect |-> TRUE],
      [port |-> CUSTOM_PORT, state |-> "DEFAULT", autoReconnect |-> FALSE],
      [port |-> CUSTOM_PORT, state |-> "LOCAL", autoReconnect |-> TRUE] }

\* handlers that only read the state they are given
Handlers == {"h1", "h2"}

\* handlers that call removeHubStateUpdatedListener on themselves when notified
OneShotHandlers == {"once"}

\* ------------------------------------------------------------------- values

\* export const DEFAULT_HUB_STATE = { hubConnStatus: "offline", hub_stats: {state_updates_recv: 0} }
DEFAULT_HUB_STATE == [k \in {"hubConnStatus", "hub_stats"} |->
                        IF k = "hubConnStatus" THEN "offline" ELSE "0"]

\* The data objects of inbound state/stateUpdate frames, as Object.entries
\* lists them: <<key, value>> pairs in insertion order.
Payloads == { << <<"foo", "1">> >>,
              << <<"foo", "2">>, <<"bar", "3">> >>,
              << <<"hubConnStatus", "online">>, <<"hub_stats", "5">> >> }

\* Inbound frames: event.data that is not JSON, JSON null, or a JSON object
\* with a type and (for state and stateUpdate) a data object.
Frame(raw, type, data) == [raw |-> raw, type |-> type, data |-> data]
Frames == { Frame("notjson", "", <<>>), Frame("null", "", <<>>),
            Frame("object", "pong", <<>>), Frame("object", "other", <<>>) }
          \cup { Frame("object", t, p) : t \in {"state", "stateUpdate"}, p \in Payloads }

\* -------------------------------------------------------------------- state

VARIABLES
    hub_state,          \* __hub_state: the mirror, a function from its keys
    onUpdateCallbacks,  \* the listener registry, in registration order
    hubStatePromises,   \* resolvers of pending getStateFromCentralHub calls
    sinceHubUpdate,     \* Date.now() - lastHubUpdate, capped at AgeCap
    hubMonitor,         \* ms until the monitor's next tick, or NoTimer
    webSocket,          \* index in sessions of the current socket, 0 = null
    sessions,           \* one record per connectToHub call
    calls,              \* one record per getStateFromCentralHub call
    lastWrites,         \* per key, the value of the last merged frame naming it
    notified,           \* listener invocations made by the last task
    sent,               \* client frames put on a socket by the last task
    resolved,           \* promise resolutions made by the last task
    threw,              \* whether the last task ended in an uncaught exception
    received,           \* the inbound frame or event the last task handled, <<>> if none
    updates,            \* one record per sendHubStateUpdate call
    providers,          \* one record per HubStateProvider instance
    rtc,                \* a WebRTCClient: this.pc, the peer connections, the negotiations
    angles,             \* a pan/tilt computation: its inputs and results so far
    intervals,          \* the setInterval timers set and not cleared
    closePending        \* the session whose close event the running task has
                        \* still to dispatch, 0 for none

\* the hub-state client, its callers and what its last task did
hubVars == <<hub_state, onUpdateCallbacks, hubStatePromises, sinceHubUpdate,
             hubMonitor, webSocket, sessions, calls, lastWrites, notified, sent,
             resolved, threw, received, updates, providers, intervals,
             closePending>>

\* the utilities that do not use the hub-state client
uiVars == <<rtc, angles>>

vars == <<hub_state, onUpdateCallbacks, hubStatePromises, sinceHubUpdate,
          hubMonitor, webSocket, sessions, calls, lastWrites, notified, sent, resolved,
          threw, received, updates, providers, rtc, angles, intervals,
          closePending>>

Min(S) == CHOOSE x \in S : \A y \in S : x <= y

Range(q) == {q[i] : i \in 1..Len(q)}

\* A session: the socket made by one connectToHub call together with what
\* its handlers close over (state, autoReconnect) and the timers they set.
\* readyState "NONE" records a call whose `new WebSocket` threw; hasSent
\* says whether the socket has carried a client frame.
Session(opts, readyState, reconnectTimer) ==
    [readyState |-> readyState, port |-> opts.port, state |-> opts.state,
     autoReconnect |-> opts.autoReconnect, hasSent |-> FALSE,
     openTimer |-> NoTimer, reconnectTimer |-> reconnectTimer]

\* the hub-state module after its import
HubInit ==
    /\ hub_state = DEFAULT_HUB_STATE
    /\ onUpdateCallbacks = <<>>
    /\ hubStatePromises = <<>>
    /\ sinceHubUpdate = 0
    /\ hubMonitor = NoTimer
    /\ webSocket = 0
    /\ sessions = <<>>
    /\ calls = <<>>
    /\ lastWrites = <<>>
    /\ notified = <<>>
    /\ sent = <<>>
    /\ resolved = <<>>
    /\ threw = FALSE
    /\ received = <<>>
    /\ updates = <<>>
    /\ providers = <<>>
    /\ intervals = 0
    /\ closePending = 0

\* new WebRTCClient(): private pc = null, and no start() call yet
RtcInit == rtc = [pc |-> 0, pcs |-> <<>>, chains |-> <<>>]

\* no pan/tilt computation
NoAngles == angles = <<>>

Init == HubInit /\ RtcInit /\ NoAngles

\* A task of its own: it begins when the task before it has dispatched all
\* its events, and leaves no event to dispatch.
OwnTask == closePending = 0 /\ closePending' = 0

\* what the last task did besides changing the client's state
Observed(n, s, t) == notified' = n /\ sent' = s /\ threw' = t /\ resolved' = <<>>

\* the same for a task that is not a message handler
Outcome(n, s, t) == Observed(n, s, t) /\ received' = <<>>

\* ------------------------------------------------------------------ helpers

\* onUpdateCallbacks.indexOf(handler), 0 for -1
IndexOf(q, h) ==
    IF h \in Range(q) THEN Min({i \in 1..Len(q) : q[i] = h}) ELSE 0

\* onUpdateCallbacks.splice(index, 1)
Splice(q, index) == SubSeq(q, 1, index - 1) \o SubSeq(q, index + 1, Len(q))

\* a removal that leaves the registry as it is: not what
\* removeHubStateUpdatedListener does, and what C23 tells apart from it
KeepListener(cbs, h) == cbs

\* removeHubStateUpdatedListener(handler): the registry after the call
removeHubStateUpdatedListener(cbs, h) ==
    IF IndexOf(cbs, h) # 0 THEN Splice(cbs, IndexOf(cbs, h)) ELSE cbs

\* callback(__hub_state): the registry after handler h has run.  A one-shot
\* handler unregisters itself when it is notified; the others leave the
\* registry alone.
RunCallback(h, cbs) ==
    IF h \in OneShotHandlers THEN removeHubStateUpdatedListener(cbs, h) ELSE cbs

\* emitUpdated's loop `for (const callback of onUpdateCallbacks)`: the array
\* iterator keeps an index into the live array, so the loop goes on at i + 1
\* in the registry as the callback left it
RECURSIVE emitLoop(_, _, _, _)
emitLoop(cbs, i, hs, log) ==
    IF i > Len(cbs) THEN [callbacks |-> cbs, log |-> log]
    ELSE emitLoop(RunCallback(cbs[i], cbs), i + 1, hs,
                  Append(log, [h |-> cbs[i], state |-> hs]))

\* emitUpdated: the callbacks invoked, in order, each with the mirror
emitUpdated(cbs, hs) == emitLoop(cbs, 1, hs, <<>>).log

\* emitUpdated: the registry when the loop is over
afterEmit(cbs) == emitLoop(cbs, 1, <<>>, <<>>).callbacks

\* the handler made by run number `run` of HubStateProvider's effect
handleHubStateUpdate(run) == "handleHubStateUpdate" \o ToString(run)

\* handleHubStateUpdate(newState) => setHubState({ ...newState }): the
\* providers after the invocations of `log`.  setHubState only enqueues the
\* copy made at the call; the value the provider exposes changes when React
\* renders, in a later task.  Of the updates enqueued before a render the
\* last one is what the render yields; React drops a state update of an
\* instance that is no longer mounted.
RECURSIVE setHubState(_, _)
setHubState(ps, log) ==
    IF log = <<>> THEN ps
    ELSE setHubState([m \in 1..Len(ps) |->
                        IF ps[m].mounted /\ handleHubStateUpdate(ps[m].run) = Head(log).h
                        THEN [ps[m] EXCEPT !.queued = <<Head(log).state>>]
                        ELSE ps[m]],
                     Tail(log))

\* setHubConnStatus: the mirror after __hub_state.hubConnStatus = newStatus
setHubConnStatus(hs, newStatus) == [hs EXCEPT !["hubConnStatus"] = newStatus]

\* __hub_state[key] = value
Assign(hs, key, value) ==
    [k \in DOMAIN hs \cup {key} |-> IF k = key THEN value ELSE hs[k]]

\* a merge that keeps the value of a key the mirror already holds: not what
\* the loop below does, and what C1 tells apart from it
MergeKeepingOldValues(hs, hubData) ==
    [k \in DOMAIN hs \cup {hubData[i][1] : i \in 1..Len(hubData)} |->
        IF k \in DOMAIN hs THEN hs[k]
        ELSE hubData[CHOOSE i \in 1..Len(hubData) : hubData[i][1] = k][2]]

\* updateStateFromCentralHub: the for loop over Object.entries(hubData)
RECURSIVE updateStateFromCentralHub(_, _)
updateStateFromCentralHub(hs, hubData) ==
    IF hubData = <<>> THEN hs
    ELSE updateStateFromCentralHub(Assign(hs, Head(hubData)[1], Head(hubData)[2]),
                                   Tail(hubData))

\* webSocket!.send(...) throws when webSocket is null (a TypeError) or the
\* socket is still CONNECTING (an InvalidStateError)
SendThrows(ss, w) == w = 0 \/ ss[w].readyState = "CONNECTING"

\* the frames that send puts on socket w: an OPEN socket carries them, a
\* CLOSING or CLOSED one drops them silently
Carried(ss, w, types) ==
    IF ss[w].readyState = "OPEN"
    THEN [i \in 1..Len(types) |-> [s |-> w, type |-> types[i]]]
    ELSE <<>>

\* the sessions after webSocket!.send of `types` on socket w
AfterSend(ss, w, types) ==
    IF Carried(ss, w, types) # <<>> THEN [ss EXCEPT ![w].hasSent = TRUE] ELSE ss

\* a monitor that is left running: not what stopHubMonitor does, and what C16
\* tells apart from it
KeepMonitorRunning(hm) == hm

\* stopHubMonitor: clearInterval and hubMonitor = null
stopHubMonitor(hm) == NoTimer

\* a stop that only forgets the handle, without clearInterval: not what
\* stopHubMonitor does, and what C35 tells apart from it
ForgetInterval(n, hm) == n

\* stopHubMonitor's `if (hubMonitor) { clearInterval(hubMonitor); ... }`: the
\* intervals that are left of n
ClearInterval(n, hm) == IF hm # NoTimer THEN n - 1 ELSE n

\* startHubMonitor: stopHubMonitor() and then setInterval: the intervals
\* there are afterwards
startHubMonitor(n, hm) == ClearInterval(n, hm) + 1

\* a reconnect that is scheduled whatever autoReconnect says: not what the
\* close handler does, and what C18 tells apart from it
AlwaysScheduleReconnect(autoReconnect) == RECONNECT_DELAY

\* if (autoReconnect) delayedConnectToHub(state): the reconnect timer set
ScheduleReconnect(autoReconnect) ==
    IF autoReconnect THEN RECONNECT_DELAY ELSE NoTimer

\* a test that already finds one ping interval of silence stale: not what
\* the monitor does, and what C19 tells apart from it
StaleAfterOneInterval(age) == age >= HUB_PING_INTERVAL

\* the monitor's staleness test on age = Date.now() - lastHubUpdate
Stale(age) == age > MIN_HUB_UPDATE_INTERVAL

\* the object a session's `state` option refers to
StateObject(arg) == IF arg = "LOCAL" THEN hub_state ELSE DEFAULT_HUB_STATE

\* ------------------------------------------------------------- connectToHub

\* connectToHub(opts) run on the sessions `ss` with the registry `cbs`;
\* `throws` says whether `new WebSocket(hubUrl)` throws.
connectToHubFrom(cbs, opts, throws, ss) ==
    LET connecting == setHubConnStatus(hub_state, "connecting")
        offline    == setHubConnStatus(connecting, "offline")
    IN  IF ~throws
        THEN /\ hub_state' = connecting
             /\ sessions' = Append(ss, Session(opts, "CONNECTING", NoTimer))
             /\ webSocket' = Len(ss) + 1
             /\ hubMonitor' = hubMonitor
             /\ intervals' = intervals
             /\ onUpdateCallbacks' = afterEmit(cbs)
             /\ Outcome(emitUpdated(cbs, connecting), <<>>, FALSE)
        ELSE \* catch (e): onConnError(state, e, autoReconnect)
             /\ hub_state' = offline
             /\ sessions' = Append(ss, Session(opts, "NONE",
                                              ScheduleReconnect(opts.autoReconnect)))
             /\ webSocket' = webSocket
             /\ hubMonitor' = stopHubMonitor(hubMonitor)
             /\ intervals' = ClearInterval(intervals, hubMonitor)
             /\ onUpdateCallbacks' = afterEmit(afterEmit(cbs))
             /\ Outcome(emitUpdated(cbs, connecting)
                            \o emitUpdated(afterEmit(cbs), offline),
                        <<>>, FALSE)

connectToHub(opts, throws, ss) == connectToHubFrom(onUpdateCallbacks, opts, throws, ss)

ConnectToHub(opts, throws) ==
    /\ Len(sessions) < MaxSessions
    /\ connectToHub(opts, throws, sessions)
    /\ UNCHANGED <<hubStatePromises, sinceHubUpdate, calls, lastWrites>>
    /\ UNCHANGED updates
    /\ providers' = setHubState(providers, notified')
    /\ UNCHANGED uiVars
    /\ OwnTask

\* ------------------------------------------------------------ socket events

\* the open event of session s and its handler
SocketOpen(s) ==
    /\ sessions[s].readyState = "CONNECTING"
    /\ sessions' = [sessions EXCEPT ![s].readyState = "OPEN",
                                    ![s].openTimer = HANDSHAKE_DELAY]
    /\ sinceHubUpdate' = 0
    /\ Outcome(<<>>, <<>>, FALSE)
    /\ UNCHANGED <<hub_state, onUpdateCallbacks, hubStatePromises, hubMonitor,
                   webSocket, calls, lastWrites, intervals>>
    /\ UNCHANGED updates
    /\ providers' = setHubState(providers, notified')
    /\ UNCHANGED uiVars
    /\ OwnTask

\* the three frames of the post-open handshake, in the order they are sent
HandshakeFrames == <<"getState", "identity", "subscribeState">>

\* the setTimeout callback of the open handler of session s: it sends on the
\* module's webSocket, whichever socket that is by now
HandshakeTimer(s) ==
    /\ sessions[s].openTimer = 0
    /\ LET cleared == [sessions EXCEPT ![s].openTimer = NoTimer]
           online  == setHubConnStatus(hub_state, "online")
       IN  IF SendThrows(cleared, webSocket)
           THEN /\ sessions' = cleared
                /\ Outcome(<<>>, <<>>, TRUE)
                /\ UNCHANGED <<hub_state, hubMonitor, onUpdateCallbacks, intervals>>
           ELSE /\ sessions' = AfterSend(cleared, webSocket, HandshakeFrames)
                /\ hub_state' = online
                /\ hubMonitor' = HUB_PING_INTERVAL
                /\ intervals' = startHubMonitor(intervals, hubMonitor)
                /\ onUpdateCallbacks' = afterEmit(onUpdateCallbacks)
                /\ Outcome(emitUpdated(onUpdateCallbacks, online),
                           Carried(cleared, webSocket, HandshakeFrames), FALSE)
    /\ UNCHANGED <<hubStatePromises, sinceHubUpdate, webSocket, calls, lastWrites>>
    /\ UNCHANGED updates
    /\ providers' = setHubState(providers, notified')
    /\ UNCHANGED uiVars
    /\ OwnTask

\* the event that the error handler logs
ErrorEvent == Frame("error", "", <<>>)

\* an error handler that recovers on its own as onConnError does, going
\* offline and scheduling a reconnect: not what the handler does, and what
\* C30 tells apart from it
SocketErrorRecovers(s) ==
    /\ closePending = 0
    /\ sessions[s].readyState \in {"CONNECTING", "OPEN", "CLOSING"}
    /\ closePending' = s
    /\ hub_state' = setHubConnStatus(hub_state, "offline")
    /\ hubMonitor' = stopHubMonitor(hubMonitor)
    /\ intervals' = ClearInterval(intervals, hubMonitor)
    /\ sessions' = [sessions EXCEPT ![s].readyState = "CLOSED",
                                    ![s].reconnectTimer =
                                        ScheduleReconnect(sessions[s].autoReconnect)]
    /\ onUpdateCallbacks' = afterEmit(onUpdateCallbacks)
    /\ Observed(emitUpdated(onUpdateCallbacks, hub_state'), <<>>, FALSE)
    /\ received' = <<ErrorEvent>>
    /\ UNCHANGED <<hubStatePromises, sinceHubUpdate, webSocket, calls, lastWrites,
                   updates>>
    /\ providers' = setHubState(providers, notified')
    /\ UNCHANGED uiVars

\* The connection of session s fails, while it is being set up, while it is
\* open or during the closing handshake.  The browser runs one task for it:
\* it sets readyState to CLOSED, fires the error event and then the close
\* event.  This is the first part of that task, up to the end of the error
\* handler, which only logs; the close handler is what the task runs next,
\* before any other task.
SocketError(s) ==
    /\ closePending = 0
    /\ sessions[s].readyState \in {"CONNECTING", "OPEN", "CLOSING"}
    /\ sessions' = [sessions EXCEPT ![s].readyState = "CLOSED"]
    /\ closePending' = s
    /\ Observed(<<>>, <<>>, FALSE)
    /\ received' = <<ErrorEvent>>
    /\ UNCHANGED <<hub_state, onUpdateCallbacks, hubStatePromises, sinceHubUpdate,
                   hubMonitor, webSocket, calls, lastWrites, intervals>>
    /\ UNCHANGED updates
    /\ providers' = setHubState(providers, notified')
    /\ UNCHANGED uiVars

\* the closing handshake starts: readyState becomes CLOSING, no event
SocketClosing(s) ==
    /\ sessions[s].readyState = "OPEN"
    /\ sessions' = [sessions EXCEPT ![s].readyState = "CLOSING"]
    /\ Outcome(<<>>, <<>>, FALSE)
    /\ UNCHANGED <<hub_state, onUpdateCallbacks, hubStatePromises, sinceHubUpdate,
                   hubMonitor, webSocket, calls, lastWrites, intervals>>
    /\ UNCHANGED updates
    /\ providers' = setHubState(providers, notified')
    /\ UNCHANGED uiVars
    /\ OwnTask

\* the close event of session s and its handler: in a task of its own when
\* the connection ends without an error, and else as the rest of the task
\* that fired the error event
SocketClose(s) ==
    /\ \/ closePending = s
       \/ closePending = 0 /\ sessions[s].readyState \in {"CONNECTING", "OPEN", "CLOSING"}
    /\ closePending' = 0
    /\ sessions' = [sessions EXCEPT ![s].readyState = "CLOSED",
                        ![s].reconnectTimer =
                            ScheduleReconnect(sessions[s].autoReconnect)]
    /\ Outcome(<<>>, <<>>, FALSE)
    /\ UNCHANGED <<hub_state, onUpdateCallbacks, hubStatePromises, sinceHubUpdate,
                   hubMonitor, webSocket, calls, lastWrites, intervals>>
    /\ UNCHANGED updates
    /\ providers' = setHubState(providers, notified')
    /\ UNCHANGED uiVars

\* hubStatePromises.forEach((p) => p(message.data)): the calls each
\* resolver is invoked for, in queue order
Resolutions(ps, data) == [i \in 1..Len(ps) |-> [call |-> ps[i], data |-> data]]

\* the call records after those invocations, counting them per call
Resolve(cs, ps) ==
    [c \in 1..Len(cs) |->
        [cs[c] EXCEPT !.resolutions =
            @ + Cardinality({i \in 1..Len(ps) : ps[i] = c})]]

\* a queue that is left as it is after its resolvers ran: not what the
\* handler does, and what C10 tells apart from it
KeepPromises(ps) == ps

\* hubStatePromises = []
ClearPromises(ps) == <<>>

\* the keys of a data object
KeysOf(data) == {data[i][1] : i \in 1..Len(data)}

\* the value a data object holds for key k
ValueOf(data, k) == data[CHOOSE i \in 1..Len(data) : data[i][1] = k][2]

\* the record of last writes after a frame's data has been merged
Written(lw, data) ==
    [k \in DOMAIN lw \cup KeysOf(data) |->
        IF k \in KeysOf(data) THEN ValueOf(data, k) ELSE lw[k]]

\* a message event on the socket of session s and its handler
\* a parse error that is not caught: not what the handler does, and what C14
\* tells apart from it
ParseErrorEscapes(f) == f.raw = "notjson"

\* try { JSON.parse(event.data) } catch (e) { console.error(...); return }:
\* whether the parse error of frame f leaves the handler
ParseErrorPropagates(f) == FALSE

\* a handler without the branch for pending requests: not what the message
\* handler does, and what C27 tells apart from it
NeverDispatched(f, ps) == FALSE

\* message.type === "state" && hubStatePromises.length > 0
DispatchedToCallers(f, ps) == f.type = "state" /\ Len(ps) > 0

SocketMessage(s, f) ==
    /\ sessions[s].readyState = "OPEN"
    /\ sinceHubUpdate' = 0
    /\ received' = <<f>>
    /\ UNCHANGED <<hubMonitor, webSocket, sessions, intervals>>
    /\ CASE f.raw = "notjson" ->
              \* JSON.parse throws; caught, logged, return
              /\ Observed(<<>>, <<>>, ParseErrorPropagates(f))
              /\ UNCHANGED <<hub_state, onUpdateCallbacks, hubStatePromises, calls, lastWrites>>
         [] f.raw = "null" ->
              \* message is null: message.type throws a TypeError
              /\ Observed(<<>>, <<>>, TRUE)
              /\ UNCHANGED <<hub_state, onUpdateCallbacks, hubStatePromises, calls, lastWrites>>
         [] f.raw = "object" /\ f.type = "pong" ->
              /\ Observed(<<>>, <<>>, FALSE)
              /\ UNCHANGED <<hub_state, onUpdateCallbacks, hubStatePromises, calls, lastWrites>>
         [] f.raw = "object" /\ DispatchedToCallers(f, hubStatePromises) ->
              /\ calls' = Resolve(calls, hubStatePromises)
              /\ hubStatePromises' = ClearPromises(hubStatePromises)
              /\ notified' = <<>> /\ sent' = <<>> /\ threw' = FALSE
              /\ resolved' = Resolutions(hubStatePromises, f.data)
              /\ UNCHANGED <<hub_state, onUpdateCallbacks, lastWrites>>
         [] /\ f.raw = "object"
            /\ ~DispatchedToCallers(f, hubStatePromises)
            /\ f.type = "state" \/ f.type = "stateUpdate" ->
              /\ hub_state' = updateStateFromCentralHub(hub_state, f.data)
              /\ lastWrites' = Written(lastWrites, f.data)
              /\ onUpdateCallbacks' = afterEmit(onUpdateCallbacks)
              /\ Observed(emitUpdated(onUpdateCallbacks, hub_state'), <<>>, FALSE)
              /\ UNCHANGED <<hubStatePromises, calls>>
         [] OTHER ->
              /\ Observed(<<>>, <<>>, FALSE)
              /\ UNCHANGED <<hub_state, onUpdateCallbacks, hubStatePromises, calls, lastWrites>>
    /\ UNCHANGED updates
    /\ providers' = setHubState(providers, notified')
    /\ UNCHANGED uiVars
    /\ OwnTask

\* ------------------------------------------------------------------- timers

\* a test that only looks for a socket: not what the monitor tests, and what
\* C29 tells apart from it
SocketMissing(ss, w) == w = 0

\* !webSocket || webSocket.readyState !== WebSocket.OPEN
SocketGone(ss, w) == w = 0 \/ ss[w].readyState # "OPEN"

\* one tick of the setInterval callback of startHubMonitor
MonitorTick ==
    /\ hubMonitor = 0
    /\ IF SocketGone(sessions, webSocket)
       THEN \* stopHubMonitor(); return
            /\ hubMonitor' = stopHubMonitor(hubMonitor)
            /\ intervals' = ClearInterval(intervals, hubMonitor)
            /\ Outcome(<<>>, <<>>, FALSE)
            /\ UNCHANGED <<hub_state, sessions, onUpdateCallbacks>>
       ELSE /\ hubMonitor' = HUB_PING_INTERVAL
            /\ UNCHANGED intervals
            /\ sessions' = AfterSend(sessions, webSocket, <<"ping">>)
            /\ IF hub_state["hubConnStatus"] = "online" /\ Stale(sinceHubUpdate)
               THEN /\ hub_state' = setHubConnStatus(hub_state, "offline")
                    /\ onUpdateCallbacks' = afterEmit(onUpdateCallbacks)
                    /\ Outcome(emitUpdated(onUpdateCallbacks, hub_state'),
                               Carried(sessions, webSocket, <<"ping">>), FALSE)
               ELSE /\ Outcome(<<>>, Carried(sessions, webSocket, <<"ping">>), FALSE)
                    /\ UNCHANGED <<hub_state, onUpdateCallbacks>>
    /\ UNCHANGED <<hubStatePromises, sinceHubUpdate, webSocket, calls, lastWrites>>
    /\ UNCHANGED updates
    /\ providers' = setHubState(providers, notified')
    /\ UNCHANGED uiVars
    /\ OwnTask

\* the options of the connectToHub call made by delayedConnectToHub:
\* connectToHub({ port: __hub_port, state })
ReconnectOptions(state) ==
    [port |-> __hub_port, state |-> state, autoReconnect |-> TRUE]

\* the setTimeout callback of delayedConnectToHub(state), scheduled by the
\* close handler or by onConnError of session s
ReconnectTimer(s, throws) ==
    /\ sessions[s].reconnectTimer = 0
    /\ LET cleared == [sessions EXCEPT ![s].reconnectTimer = NoTimer]
       IN  IF StateObject(sessions[s].state)["hubConnStatus"] = "offline"
           THEN /\ Len(sessions) < MaxSessions
                /\ connectToHub(ReconnectOptions(sessions[s].state), throws, cleared)
           ELSE /\ ~throws
                /\ sessions' = cleared
                /\ Outcome(<<>>, <<>>, FALSE)
                /\ UNCHANGED <<hub_state, webSocket, hubMonitor, onUpdateCallbacks,
                   intervals>>
    /\ UNCHANGED <<hubStatePromises, sinceHubUpdate, calls, lastWrites>>
    /\ UNCHANGED updates
    /\ providers' = setHubState(providers, notified')
    /\ UNCHANGED uiVars
    /\ OwnTask

\* the timers that are set, as ms left; a render or an effect run that React
\* has scheduled is a task that is due now
ActiveTimers ==
    ({hubMonitor}
     \cup {sessions[i].openTimer : i \in 1..Len(sessions)}
     \cup {sessions[i].reconnectTimer : i \in 1..Len(sessions)}
     \cup {updates[u].timer : u \in 1..Len(updates)}
     \cup {0 : m \in {n \in 1..Len(providers) :
                        \/ providers[n].mounted /\ providers[n].queued # <<>>
                        \/ providers[n].effects # "none"}})
        \ {NoTimer}

Elapse(t, d) == IF t = NoTimer THEN NoTimer ELSE t - d

\* time passes: by TimeStep, or up to the next timer that is due
Tick ==
    /\ 0 \notin ActiveTimers
    /\ LET d == Min(ActiveTimers \cup {TimeStep})
       IN  /\ hubMonitor' = Elapse(hubMonitor, d)
           /\ sessions' = [i \in 1..Len(sessions) |->
                            [sessions[i] EXCEPT !.openTimer = Elapse(@, d),
                                                !.reconnectTimer = Elapse(@, d)]]
           /\ updates' = [u \in 1..Len(updates) |->
                            [updates[u] EXCEPT !.timer = Elapse(@, d)]]
           /\ sinceHubUpdate' = Min({sinceHubUpdate + d, AgeCap})
    /\ Outcome(<<>>, <<>>, FALSE)
    /\ UNCHANGED <<hub_state, onUpdateCallbacks, hubStatePromises, webSocket,
                   calls, lastWrites, intervals>>
    /\ providers' = setHubState(providers, notified')
    /\ UNCHANGED uiVars
    /\ OwnTask

\* --------------------------------------------------------------- public API

\* addHubStateUpdatedListener(handler): onUpdateCallbacks.push(handler)
addHubStateUpdatedListener(h) ==
    /\ onUpdateCallbacks' = Append(onUpdateCallbacks, h)
    /\ Outcome(<<>>, <<>>, FALSE)
    /\ UNCHANGED <<hub_state, hubStatePromises, sinceHubUpdate, hubMonitor, webSocket,
                   sessions, calls, lastWrites, intervals>>
    /\ UNCHANGED updates
    /\ providers' = setHubState(providers, notified')
    /\ UNCHANGED uiVars
    /\ OwnTask

AddHubStateUpdatedListener(h) ==
    /\ Len(onUpdateCallbacks) < MaxListeners
    /\ addHubStateUpdatedListener(h)

RemoveHubStateUpdatedListener(h) ==
    /\ onUpdateCallbacks' = removeHubStateUpdatedListener(onUpdateCallbacks, h)
    /\ Outcome(<<>>, <<>>, FALSE)
    /\ UNCHANGED <<hub_state, hubStatePromises, sinceHubUpdate, hubMonitor, webSocket,
                   sessions, calls, lastWrites, intervals>>
    /\ UNCHANGED updates
    /\ providers' = setHubState(providers, notified')
    /\ UNCHANGED uiVars
    /\ OwnTask

\* getStateFromCentralHub: the resolver is queued by the Promise executor
\* before webSocket!.send, which may throw
GetStateFromCentralHub ==
    /\ Len(calls) < MaxCalls
    /\ hubStatePromises' = Append(hubStatePromises, Len(calls) + 1)
    /\ IF SendThrows(sessions, webSocket)
       THEN /\ calls' = Append(calls, [returned |-> FALSE, resolutions |-> 0])
            /\ Outcome(<<>>, <<>>, TRUE)
            /\ UNCHANGED sessions
       ELSE /\ calls' = Append(calls, [returned |-> TRUE, resolutions |-> 0])
            /\ sessions' = AfterSend(sessions, webSocket, <<"getState">>)
            /\ Outcome(<<>>, Carried(sessions, webSocket, <<"getState">>), FALSE)
    /\ UNCHANGED <<hub_state, onUpdateCallbacks, sinceHubUpdate, hubMonitor, webSocket,
                   lastWrites, intervals>>
    /\ UNCHANGED updates
    /\ providers' = setHubState(providers, notified')
    /\ UNCHANGED uiVars
    /\ OwnTask

\* updateSharedState(newState): webSocket!.send of an updateState frame
UpdateSharedState ==
    /\ IF SendThrows(sessions, webSocket)
       THEN /\ Outcome(<<>>, <<>>, TRUE)
            /\ UNCHANGED sessions
       ELSE /\ sessions' = AfterSend(sessions, webSocket, <<"updateState">>)
            /\ Outcome(<<>>, Carried(sessions, webSocket, <<"updateState">>), FALSE)
    /\ UNCHANGED <<hub_state, onUpdateCallbacks, hubStatePromises, sinceHubUpdate,
                   hubMonitor, webSocket, calls, lastWrites, intervals>>
    /\ UNCHANGED updates
    /\ providers' = setHubState(providers, notified')
    /\ UNCHANGED uiVars
    /\ OwnTask

\* ------------------------------------------------------- sendHubStateUpdate

\* the data objects sendHubStateUpdate is called with
UpdateData == {"pan90", "manual"}

\* One sendHubStateUpdate(data) call: the data its closure holds, whether the
\* call queued the update, the ms left on its setTimeout, and the readyState
\* of the socket and the data at each webSocket.send it made.
Update(data, queued, timer) ==
    [data |-> data, queued |-> queued, timer |-> timer, sends |-> <<>>]

\* a test that only looks for a socket: not what sendHubStateUpdate tests,
\* and what C21 tells apart from it
SocketPresent(ss, w) == w # 0

\* webSocket && webSocket.readyState === WebSocket.OPEN
SocketReady(ss, w) == w # 0 /\ ss[w].readyState = "OPEN"

\* webSocket.send(JSON.stringify({type: "updateState", data})) made for
\* update u of `ups`
sendUpdateState(ups, u) ==
    IF SendThrows(sessions, webSocket)
    THEN /\ updates' = ups
         /\ Outcome(<<>>, <<>>, TRUE)
         /\ UNCHANGED sessions
    ELSE /\ updates' = [ups EXCEPT ![u].sends =
                            Append(@, [readyState |-> sessions[webSocket].readyState,
                                       data |-> ups[u].data])]
         /\ sessions' = AfterSend(sessions, webSocket, <<"updateState">>)
         /\ Outcome(<<>>, Carried(sessions, webSocket, <<"updateState">>), FALSE)

\* sendHubStateUpdate(data)
SendHubStateUpdate(data) ==
    /\ Len(updates) < MaxUpdates
    /\ IF SocketReady(sessions, webSocket)
       THEN sendUpdateState(Append(updates, Update(data, FALSE, NoTimer)),
                            Len(updates) + 1)
       ELSE \* console.warn and setTimeout(..., 1000)
            /\ updates' = Append(updates, Update(data, TRUE, UPDATE_RETRY_DELAY))
            /\ Outcome(<<>>, <<>>, FALSE)
            /\ UNCHANGED sessions
    /\ UNCHANGED <<hub_state, onUpdateCallbacks, hubStatePromises, sinceHubUpdate,
                   hubMonitor, webSocket, calls, lastWrites, intervals>>
    /\ providers' = setHubState(providers, notified')
    /\ UNCHANGED uiVars
    /\ OwnTask

\* the setTimeout callback of the sendHubStateUpdate call u
UpdateRetryTimer(u) ==
    /\ updates[u].timer = 0
    /\ LET cleared == [updates EXCEPT ![u].timer = NoTimer]
       IN  IF SocketReady(sessions, webSocket)
           THEN sendUpdateState(cleared, u)
           ELSE /\ updates' = cleared
                /\ Outcome(<<>>, <<>>, FALSE)
                /\ UNCHANGED sessions
    /\ UNCHANGED <<hub_state, onUpdateCallbacks, hubStatePromises, sinceHubUpdate,
                   hubMonitor, webSocket, calls, lastWrites, intervals>>
    /\ providers' = setHubState(providers, notified')
    /\ UNCHANGED uiVars
    /\ OwnTask

\* --------------------------------------------------------- HubStateProvider

\* The props a HubStateProvider is rendered with: the defaults, a custom
\* port with autoReconnect={false}, and autoConnect={false}.
ProviderProps ==
    { [port |-> DEFAULT_BB_HUB_PORT, autoConnect |-> TRUE, autoReconnect |-> TRUE],
      [port |-> CUSTOM_PORT, autoConnect |-> TRUE, autoReconnect |-> FALSE],
      [port |-> DEFAULT_BB_HUB_PORT, autoConnect |-> FALSE, autoReconnect |-> TRUE] }

\* A provider instance: its props, whether it is mounted (rendered and
\* committed), the hubState it passes to HubStateContext.Provider, the state
\* update that setHubState has enqueued and React has not rendered yet (<<>>
\* for none), the number of the effect run that made the handler it has
\* registered (0 before its first effect run), and the passive effects of its
\* last commit that React has still to run: "mount" (the body of the effect),
\* "update" (the cleanup and then the body), "unmount" (the cleanup) or "none".
Provider(props) ==
    [port |-> props.port, autoConnect |-> props.autoConnect,
     autoReconnect |-> props.autoReconnect, mounted |-> TRUE,
     hubState |-> DEFAULT_HUB_STATE, queued |-> <<>>, run |-> 0,
     effects |-> "mount"]

\* the props of provider instance p
PropsOf(p) ==
    [port |-> p.port, autoConnect |-> p.autoConnect, autoReconnect |-> p.autoReconnect]

\* the effect runs so far; every run makes a handler of its own
Runs == IF providers = <<>> THEN 0
        ELSE CHOOSE n \in {providers[m].run : m \in 1..Len(providers)} :
                \A m \in 1..Len(providers) : providers[m].run <= n

\* React runs the passive effects of a commit before it renders again: no
\* effect is waiting to be run
NoEffectPending == \A m \in 1..Len(providers) : providers[m].effects = "none"

\* an effect that calls connectToHub whatever autoConnect says: not what
\* the provider does, and what C22 tells apart from it
AlwaysConnect(p) == TRUE

\* if (autoConnect)
ShouldConnect(p) == p.autoConnect

\* connectToHub({ port, state: DEFAULT_HUB_STATE, autoReconnect })
ProviderOptions(p) ==
    [port |-> p.port, state |-> "DEFAULT", autoReconnect |-> p.autoReconnect]

\* the body of useEffect for instance m of `ps`, run on the registry `cbs`:
\* addHubStateUpdatedListener(handleHubStateUpdate), then connectToHub if
\* autoConnect
Effect(ps, m, cbs, throws) ==
    LET added == Append(cbs, handleHubStateUpdate(ps[m].run))
    IN  /\ IF ShouldConnect(ps[m])
           THEN /\ Len(sessions) < MaxSessions
                /\ connectToHubFrom(added, ProviderOptions(ps[m]), throws, sessions)
           ELSE /\ ~throws
                /\ onUpdateCallbacks' = added
                /\ Outcome(<<>>, <<>>, FALSE)
                /\ UNCHANGED <<hub_state, sessions, webSocket, hubMonitor, intervals>>
        /\ providers' = setHubState(ps, notified')
        /\ UNCHANGED <<hubStatePromises, sinceHubUpdate, calls, lastWrites, updates>>
        /\ UNCHANGED uiVars
        /\ OwnTask

\* a commit by React: the providers change, the hub-state client is not called
Commit(ps) ==
    /\ providers' = ps
    /\ Outcome(<<>>, <<>>, FALSE)
    /\ UNCHANGED <<hub_state, onUpdateCallbacks, hubStatePromises, sinceHubUpdate,
                   hubMonitor, webSocket, sessions, calls, lastWrites, updates,
                   intervals>>
    /\ UNCHANGED uiVars
    /\ OwnTask

\* a HubStateProvider is mounted: its first render, with useState's initial
\* value, and the commit.  The effect is left for React to run afterwards.
Mount(props) ==
    /\ Runs < MaxEffects
    /\ ShouldConnect(props) => Len(sessions) < MaxSessions
    /\ NoEffectPending
    /\ Commit(Append(providers, Provider(props)))

\* React runs the effect of the instance m that was mounted
MountEffect(m, throws) ==
    /\ providers[m].effects = "mount"
    /\ Effect([providers EXCEPT ![m].run = Runs + 1, ![m].effects = "none"], m,
              onUpdateCallbacks, throws)

\* instance m is unmounted: React removes it at the commit, an update
\* enqueued for it is dropped, and the cleanup of its effect is left for
\* React to run afterwards
Unmount(m) ==
    /\ providers[m].mounted
    /\ NoEffectPending
    /\ Commit([providers EXCEPT ![m].mounted = FALSE, ![m].queued = <<>>,
                                ![m].effects = "unmount"])

\* React runs the cleanup of the effect of the instance m that was unmounted:
\* removeHubStateUpdatedListener(handleHubStateUpdate)
UnmountCleanup(m) ==
    /\ providers[m].effects = "unmount"
    /\ onUpdateCallbacks' =
            removeHubStateUpdatedListener(onUpdateCallbacks,
                                          handleHubStateUpdate(providers[m].run))
    /\ providers' = [providers EXCEPT ![m].effects = "none"]
    /\ Outcome(<<>>, <<>>, FALSE)
    /\ UNCHANGED <<hub_state, hubStatePromises, sinceHubUpdate, hubMonitor, webSocket,
                   sessions, calls, lastWrites, updates, intervals>>
    /\ UNCHANGED uiVars
    /\ OwnTask

\* instance p after useState has run in a render: hubState is the state
\* update that was enqueued, if there is one
useState(p) ==
    IF p.queued # <<>> THEN [p EXCEPT !.hubState = p.queued[1], !.queued = <<>>]
    ELSE p

\* React renders instance m with the state update that was enqueued: a task
\* of its own, after the task that called setHubState
Render(m) ==
    /\ providers[m].mounted
    /\ providers[m].queued # <<>>
    /\ NoEffectPending
    /\ Commit([providers EXCEPT ![m] = useState(providers[m])])

\* instance m is rendered with other props (port, autoConnect or
\* autoReconnect changed) and committed; the render takes in a state update
\* that was enqueued.  The cleanup and the effect are left for React to run
\* afterwards.
ChangeProps(m, props) ==
    /\ providers[m].mounted
    /\ props # PropsOf(providers[m])
    /\ Runs < MaxEffects
    /\ ShouldConnect(props) => Len(sessions) < MaxSessions
    /\ NoEffectPending
    /\ Commit([providers EXCEPT ![m] = [useState(providers[m]) EXCEPT
                                            !.port = props.port,
                                            !.autoConnect = props.autoConnect,
                                            !.autoReconnect = props.autoReconnect,
                                            !.effects = "update"]])

\* React runs the effects of the instance m whose props changed: the cleanup
\* of the last run and then the effect again, back to back
UpdateEffect(m, throws) ==
    /\ providers[m].effects = "update"
    /\ Effect([providers EXCEPT ![m].run = Runs + 1, ![m].effects = "none"], m,
              removeHubStateUpdatedListener(onUpdateCallbacks,
                                            handleHubStateUpdate(providers[m].run)),
              throws)

\* ------------------------------------------------------------- WebRTCClient

\* new RTCPeerConnection(): its iceGatheringState, the negotiation whose
\* offer is its localDescription (0 for null), the setRemoteDescription calls
\* made on it, whether close() was called, and the negotiations whose
\* checkState listens for icegatheringstatechange on it
PeerConnection ==
    [ice |-> "new", localDescription |-> 0, remote |-> 0, closed |-> FALSE,
     listeners |-> {}]

\* The promise chain of one negotiate() call: the peer connection its start()
\* made, the pending step, the connection a pending setLocalDescription was
\* called on, the POSTs made with what was posted, the response, and the
\* connection setRemoteDescription was called on.
Negotiation(pc) ==
    [pc |-> pc, step |-> "createOffer", target |-> 0, posts |-> 0, posted |-> <<>>,
     response |-> "none", answered |-> 0]

\* an error reaches .catch((e) => alert(e)), or the chain ends without one
Alerted(r, c) == [r EXCEPT !.chains[c].step = "alerted"]

\* the third .then callback of negotiation c: fetch(webrtcServerUrl, {method:
\* "POST", body: this.pc.localDescription}); without a connection or a local
\* description it returns undefined and the next callback throws
PostOffer(r, c) ==
    IF r.pc = 0 \/ r.pcs[r.pc].localDescription = 0
    THEN Alerted(r, c)
    ELSE [r EXCEPT !.chains[c].step = "fetch",
                   !.chains[c].posts = @ + 1,
                   !.chains[c].posted =
                        Append(@, [pc |-> r.pc, ice |-> r.pcs[r.pc].ice,
                                   offer |-> r.pcs[r.pc].localDescription])]

\* a wait that ends as soon as gathering is under way: not what negotiate
\* tests, and what C25 tells apart from it
GatheringUnderWay(state) == state # "new"

\* this.pc.iceGatheringState === "complete"
GatheringDone(state) == state = "complete"

\* the second .then callback of negotiation c, the executor of the promise
\* that waits for ICE gathering: it resolves at once, or never (this.pc is
\* null), or registers checkState on this.pc
WaitForGathering(r, c) ==
    IF r.pc # 0 /\ GatheringDone(r.pcs[r.pc].ice)
    THEN PostOffer(r, c)
    ELSE IF r.pc = 0
         THEN [r EXCEPT !.chains[c].step = "hung"]
         ELSE [r EXCEPT !.chains[c].step = "iceGathering",
                        !.pcs[r.pc].listeners = @ \cup {c}]

\* start(videoElement, audioElement): this.pc = new RTCPeerConnection() and
\* negotiate(), which calls createOffer on it
RtcStart ==
    /\ Len(rtc.chains) < MaxStarts
    /\ rtc' = [pc |-> Len(rtc.pcs) + 1,
               pcs |-> Append(rtc.pcs, PeerConnection),
               chains |-> Append(rtc.chains, Negotiation(Len(rtc.pcs) + 1))]
    /\ UNCHANGED <<hubVars, angles>>
    /\ closePending = 0

\* stop(): this.pc.close() and this.pc = null
RtcStop ==
    /\ rtc.pc # 0
    /\ rtc' = [rtc EXCEPT !.pc = 0, !.pcs[rtc.pc].closed = TRUE]
    /\ UNCHANGED <<hubVars, angles>>
    /\ closePending = 0

\* createOffer() of negotiation c settles: it rejects on a closed connection;
\* otherwise the first .then callback runs, `this.pc &&
\* this.pc.setLocalDescription(offer)`, on whichever connection this.pc is
CreateOfferSettles(c) ==
    /\ rtc.chains[c].step = "createOffer"
    /\ rtc' = IF rtc.pcs[rtc.chains[c].pc].closed THEN Alerted(rtc, c)
              ELSE IF rtc.pc = 0 THEN WaitForGathering(rtc, c)
              ELSE [rtc EXCEPT !.chains[c].step = "setLocalDescription",
                               !.chains[c].target = rtc.pc]
    /\ UNCHANGED <<hubVars, angles>>
    /\ closePending = 0

\* setLocalDescription(offer) of negotiation c settles: it rejects on a closed
\* connection, and may reject an offer another connection made
SetLocalDescriptionSettles(c, ok) ==
    /\ rtc.chains[c].step = "setLocalDescription"
    /\ LET target == rtc.chains[c].target
       IN  /\ ok => ~rtc.pcs[target].closed
           /\ ~ok => rtc.pcs[target].closed \/ target # rtc.chains[c].pc
           /\ rtc' = IF ok
                     THEN WaitForGathering(
                            [rtc EXCEPT !.pcs[target].localDescription = c,
                                        !.chains[c].target = 0], c)
                     ELSE Alerted(rtc, c)
    /\ UNCHANGED <<hubVars, angles>>
    /\ closePending = 0

\* the iceGatheringState a connection can move to
NextGatheringStates(state) ==
    CASE state = "new" -> {"gathering"}
      [] state = "gathering" -> {"complete"}
      [] state = "complete" -> {"gathering"}

\* checkState of every negotiation listening on connection p, run on the
\* client r: without this.pc, or while this.pc is not done gathering, it
\* returns; otherwise it removes itself from this.pc and resolves the wait
checkState(r, p) ==
    IF r.pc = 0 \/ ~GatheringDone(r.pcs[r.pc].ice) THEN r
    ELSE LET waiting == {c \in r.pcs[p].listeners : r.chains[c].step = "iceGathering"}
             removed == [r EXCEPT !.pcs[r.pc].listeners = @ \ r.pcs[p].listeners]
         IN  [removed EXCEPT !.chains =
                [c \in 1..Len(r.chains) |->
                    IF c \in waiting THEN PostOffer(r, c).chains[c] ELSE r.chains[c]]]

\* connection p changes its iceGatheringState and fires
\* icegatheringstatechange
IceGatheringStateChange(p, state) ==
    /\ ~rtc.pcs[p].closed
    /\ rtc.pcs[p].localDescription # 0
    /\ state \in NextGatheringStates(rtc.pcs[p].ice)
    /\ rtc' = checkState([rtc EXCEPT !.pcs[p].ice = state], p)
    /\ UNCHANGED <<hubVars, angles>>
    /\ closePending = 0

\* the outcomes of fetch: a response with ok, one without, a rejection
FetchOutcomes == {"ok", "notok", "rejected"}

\* fetch of negotiation c settles and the fourth .then callback runs: it
\* throws unless response.ok, and else calls response.json()
FetchSettles(c, outcome) ==
    /\ rtc.chains[c].step = "fetch"
    /\ rtc' = IF outcome = "ok"
              THEN [rtc EXCEPT !.chains[c].step = "json", !.chains[c].response = "ok"]
              ELSE Alerted([rtc EXCEPT !.chains[c].response = outcome], c)
    /\ UNCHANGED <<hubVars, angles>>
    /\ closePending = 0

\* response.json() of negotiation c settles and the fifth .then callback
\* runs: without a connection it logs and the chain ends; otherwise it
\* returns this.pc.setRemoteDescription(answer), which the chain waits for
JsonSettles(c, ok) ==
    /\ rtc.chains[c].step = "json"
    /\ rtc' = IF ~ok THEN Alerted(rtc, c)
              ELSE IF rtc.pc = 0 THEN [rtc EXCEPT !.chains[c].step = "done"]
              ELSE [rtc EXCEPT !.chains[c].step = "setRemoteDescription",
                               !.chains[c].answered = rtc.pc,
                               !.pcs[rtc.pc].remote = @ + 1]
    /\ UNCHANGED <<hubVars, angles>>
    /\ closePending = 0

\* setRemoteDescription(answer) of negotiation c settles: it rejects on a
\* closed connection and on one that has no local offer, and may reject any
\* answer; a rejection reaches .catch((e) => alert(e))
SetRemoteDescriptionSettles(c, ok) ==
    /\ rtc.chains[c].step = "setRemoteDescription"
    /\ LET target == rtc.chains[c].answered
       IN  /\ ok => ~rtc.pcs[target].closed /\ rtc.pcs[target].localDescription # 0
           /\ rtc' = IF ok THEN [rtc EXCEPT !.chains[c].step = "done"]
                     ELSE Alerted(rtc, c)
    /\ UNCHANGED <<hubVars, angles>>
    /\ closePending = 0

\* ---------------------------------------------------------------- angleUtils

\* Numbers are exact fractions <<numerator, denominator>> in lowest terms
\* with a positive denominator; the inputs below keep every intermediate
\* result a multiple of 1/2, which a double represents exactly.
Abs(n) == IF n < 0 THEN 0 - n ELSE n

RECURSIVE GCD(_, _)
GCD(a, b) == IF b = 0 THEN a ELSE GCD(b, a % b)

Fraction(n, d) ==
    LET s == IF d < 0 THEN 0 - 1 ELSE 1
        g == GCD(Abs(n), Abs(d))
    IN  <<(s * n) \div g, (s * d) \div g>>

Num(n) == <<n, 1>>
Minus(a, b) == Fraction(a[1] * b[2] - b[1] * a[2], a[2] * b[2])
Plus(a, b) == Fraction(a[1] * b[2] + b[1] * a[2], a[2] * b[2])
Times(a, b) == Fraction(a[1] * b[1], a[2] * b[2])
Over(a, b) == Fraction(a[1] * b[2], a[2] * b[1])

\* the IServo fields the two functions read
Servo(min, max) == [min_angle |-> min, max_angle |-> max]

\* servo configurations with max_angle > min_angle
Servos == {Servo(0, 180), Servo(45, 90), Servo(90, 180)}

\* angles within a servo's range: its ends and one in between
AnglesOf(servo) ==
    {servo.min_angle, servo.min_angle + 15, servo.max_angle}

ContainerSizes == {180, 360}

IndicatorRadii == {0, 10}

\* mapPanTiltToXYSquare, with the precedence the expressions have:
\* panAngle - (min_angle / max_angle) - min_angle
mapPanTiltToXYSquare(panAngle, panServo, tiltAngle, tiltServo, containerSize, indicatorRadius) ==
    LET xf == Minus(Minus(Num(panAngle),
                          Over(Num(panServo.min_angle), Num(panServo.max_angle))),
                    Num(panServo.min_angle))
        x  == Minus(Num(containerSize),
                    Over(Times(xf, Num(containerSize)),
                         Num(panServo.max_angle - panServo.min_angle)))
        yf == Minus(Minus(Num(tiltAngle),
                          Over(Num(tiltServo.min_angle), Num(tiltServo.max_angle))),
                    Num(tiltServo.min_angle))
        y  == Over(Times(yf, Num(containerSize)),
                   Num(tiltServo.max_angle - tiltServo.min_angle))
    IN  <<Minus(x, Num(indicatorRadius)), Minus(y, Num(indicatorRadius))>>

\* mapXYToPanTilt
mapXYToPanTilt(x, y, panServo, tiltServo, containerSize) ==
    LET panAngle ==
            Minus(Num(panServo.max_angle),
                  Over(Times(x, Num(panServo.max_angle - panServo.min_angle)),
                       Num(containerSize)))
        tiltAngle ==
            Plus(Over(Times(y, Num(tiltServo.max_angle - tiltServo.min_angle)),
                      Num(containerSize)),
                 Num(tiltServo.min_angle))
    IN  <<panAngle, tiltAngle>>

\* the arguments of one computation, the angles within the servos' ranges,
\* with no result yet
AngleInputs ==
    UNION { { [panAngle |-> pa, panServo |-> ps, tiltAngle |-> ta, tiltServo |-> ts,
               containerSize |-> cs, indicatorRadius |-> ir,
               xy |-> <<>>, panTilt |-> <<>>] :
                pa \in AnglesOf(ps), ta \in AnglesOf(ts),
                cs \in ContainerSizes, ir \in IndicatorRadii } :
            ps \in Servos, ts \in Servos }

AngleInit ==
    /\ angles \in AngleInputs
    /\ HubInit
    /\ RtcInit

\* the indicator position is computed from the angles
MapPanTiltToXYSquare ==
    /\ angles # <<>>
    /\ angles.xy = <<>>
    /\ angles' = [angles EXCEPT !.xy =
            mapPanTiltToXYSquare(angles.panAngle, angles.panServo, angles.tiltAngle,
                                 angles.tiltServo, angles.containerSize,
                                 angles.indicatorRadius)]
    /\ UNCHANGED <<hubVars, rtc>>
    /\ closePending = 0

\* the angles are computed back from that position
MapXYToPanTilt ==
    /\ angles # <<>>
    /\ angles.xy # <<>>
    /\ angles.panTilt = <<>>
    /\ angles' = [angles EXCEPT !.panTilt =
            mapXYToPanTilt(angles.xy[1], angles.xy[2], angles.panServo,
                           angles.tiltServo, angles.containerSize)]
    /\ UNCHANGED <<hubVars, rtc>>
    /\ closePending = 0

\* ----------------------------------------------------------- specifications

\* every task the client can run
Next ==
    \/ \E o \in ConnectOptions, th \in BOOLEAN : ConnectToHub(o, th)
    \/ \E s \in 1..Len(sessions) : SocketOpen(s)
    \/ \E s \in 1..Len(sessions) : HandshakeTimer(s)
    \/ \E s \in 1..Len(sessions) : SocketError(s)
    \/ \E s \in 1..Len(sessions) : SocketClosing(s)
    \/ \E s \in 1..Len(sessions) : SocketClose(s)
    \/ \E s \in 1..Len(sessions), f \in Frames : SocketMessage(s, f)
    \/ MonitorTick
    \/ \E s \in 1..Len(sessions), th \in BOOLEAN : ReconnectTimer(s, th)
    \/ Tick
    \/ \E h \in Handlers : AddHubStateUpdatedListener(h)
    \/ \E h \in Handlers : RemoveHubStateUpdatedListener(h)
    \/ GetStateFromCentralHub
    \/ UpdateSharedState
    \/ \E d \in UpdateData : SendHubStateUpdate(d)
    \/ \E u \in 1..Len(updates) : UpdateRetryTimer(u)
    \/ \E p \in ProviderProps : Mount(p)
    \/ \E m \in 1..Len(providers), th \in BOOLEAN : MountEffect(m, th)
    \/ \E m \in 1..Len(providers) : Unmount(m)
    \/ \E m \in 1..Len(providers) : UnmountCleanup(m)
    \/ \E m \in 1..Len(providers) : Render(m)
    \/ \E m \in 1..Len(providers), p \in ProviderProps : ChangeProps(m, p)
    \/ \E m \in 1..Len(providers), th \in BOOLEAN : UpdateEffect(m, th)
    \/ RtcStart
    \/ RtcStop
    \/ \E c \in 1..Len(rtc.chains) : CreateOfferSettles(c)
    \/ \E c \in 1..Len(rtc.chains), ok \in BOOLEAN : SetLocalDescriptionSettles(c, ok)
    \/ \E p \in 1..Len(rtc.pcs), st \in {"gathering", "complete"} :
            IceGatheringStateChange(p, st)
    \/ \E c \in 1..Len(rtc.chains), o \in FetchOutcomes : FetchSettles(c, o)
    \/ \E c \in 1..Len(rtc.chains), ok \in BOOLEAN : JsonSettles(c, ok)
    \/ \E c \in 1..Len(rtc.chains), ok \in BOOLEAN : SetRemoteDescriptionSettles(c, ok)
    \/ MapPanTiltToXYSquare
    \/ MapXYToPanTilt

Spec == Init /\ [][Next]_vars

\* The connection life cycle: any connectToHub calls, setup errors, socket
\* events, timers and client frames, with a hub that only answers pings.
ConnNext ==
    \/ \E o \in ConnectOptions, th \in BOOLEAN : ConnectToHub(o, th)
    \/ \E s \in 1..Len(sessions) : SocketOpen(s)
    \/ \E s \in 1..Len(sessions) : HandshakeTimer(s)
    \/ \E s \in 1..Len(sessions) : SocketError(s)
    \/ \E s \in 1..Len(sessions) : SocketClose(s)
    \/ \E s \in 1..Len(sessions) : SocketMessage(s, Frame("object", "pong", <<>>))
    \/ MonitorTick
    \/ \E s \in 1..Len(sessions), th \in BOOLEAN : ReconnectTimer(s, th)
    \/ Tick
    \/ AddHubStateUpdatedListener("h1")
    \/ UpdateSharedState

SpecConn == Init /\ [][ConnNext]_vars

\* Timers fire, time passes and a task that has begun runs to its end;
\* socket events and calls are up to the hub, the network and the user.
TimerFairness ==
    /\ WF_vars(Tick)
    /\ \A s \in 1..MaxSessions : WF_vars(closePending = s /\ SocketClose(s))
    /\ WF_vars(MonitorTick)
    /\ \A s \in 1..MaxSessions : WF_vars(s <= Len(sessions) /\ HandshakeTimer(s))
    /\ \A s \in 1..MaxSessions :
            WF_vars(s <= Len(sessions) /\ \E th \in BOOLEAN : ReconnectTimer(s, th))

FairSpecConn == SpecConn /\ TimerFairness

\* The options of <HubStateProvider port={5200} autoReconnect={false}>
ManualOptions == [port |-> CUSTOM_PORT, state |-> "DEFAULT", autoReconnect |-> FALSE]

\* The options of connectToHub({})
PlainOptions == [port |-> DEFAULT_BB_HUB_PORT, state |-> "DEFAULT", autoReconnect |-> TRUE]

\* The monitor's interval: connectToHub calls at any time, with and without
\* auto-reconnect, and setup errors, opens, handshakes, failures, closing
\* handshakes and closes of any socket, the reconnects they schedule and the
\* monitor's ticks, with a hub that sends nothing.
MonitorNext ==
    \/ \E o \in {PlainOptions, ManualOptions}, th \in BOOLEAN : ConnectToHub(o, th)
    \/ \E s \in 1..Len(sessions) : SocketOpen(s)
    \/ \E s \in 1..Len(sessions) : HandshakeTimer(s)
    \/ \E s \in 1..Len(sessions) : SocketError(s)
    \/ \E s \in 1..Len(sessions) : SocketClosing(s)
    \/ \E s \in 1..Len(sessions) : SocketClose(s)
    \/ MonitorTick
    \/ \E s \in 1..Len(sessions), th \in BOOLEAN : ReconnectTimer(s, th)
    \/ Tick

SpecMonitor == Init /\ [][MonitorNext]_vars

\* The data path: one manually connected session that is not re-established,
\* every inbound frame, full-state requests, updates and listeners.
DataNext ==
    \/ \E th \in BOOLEAN : sessions = <<>> /\ ConnectToHub(ManualOptions, th)
    \/ \E s \in 1..Len(sessions) : SocketOpen(s)
    \/ \E s \in 1..Len(sessions) : HandshakeTimer(s)
    \/ \E s \in 1..Len(sessions) : SocketClosing(s)
    \/ \E s \in 1..Len(sessions) : SocketClose(s)
    \/ \E s \in 1..Len(sessions), f \in Frames : SocketMessage(s, f)
    \/ MonitorTick
    \/ Tick
    \/ \E h \in Handlers : AddHubStateUpdatedListener(h)
    \/ \E h \in Handlers : RemoveHubStateUpdatedListener(h)
    \/ GetStateFromCentralHub
    \/ UpdateSharedState

SpecData == Init /\ [][DataNext]_vars

\* Connection setup: any connectToHub calls and setup errors, the retries
\* they schedule, opens, handshakes and the monitor, with sockets that stay
\* up and a hub that sends nothing.
SetupNext ==
    \/ \E o \in ConnectOptions, th \in BOOLEAN : ConnectToHub(o, th)
    \/ \E s \in 1..Len(sessions) : SocketOpen(s)
    \/ \E s \in 1..Len(sessions) : HandshakeTimer(s)
    \/ MonitorTick
    \/ \E s \in 1..Len(sessions), th \in BOOLEAN : ReconnectTimer(s, th)
    \/ Tick
    \/ AddHubStateUpdatedListener("h1")

SpecSetup == Init /\ [][SetupNext]_vars


\* Automatic reconnection: one connectToHub call by the user, then only
\* socket events and timers; every later session is made by a reconnect timer.
ReconnectNext ==
    \/ \E o \in ConnectOptions, th \in BOOLEAN : sessions = <<>> /\ ConnectToHub(o, th)
    \/ \E s \in 1..Len(sessions) : SocketOpen(s)
    \/ \E s \in 1..Len(sessions) : HandshakeTimer(s)
    \/ \E s \in 1..Len(sessions) : SocketClose(s)
    \/ MonitorTick
    \/ \E s \in 1..Len(sessions), th \in BOOLEAN : ReconnectTimer(s, th)
    \/ Tick
    \/ AddHubStateUpdatedListener("h1")

SpecReconnect == Init /\ [][ReconnectNext]_vars

\* Transport errors: automatic reconnection as above, with error events on
\* any socket that has not closed.
ErrorNext ==
    \/ \E o \in ConnectOptions, th \in BOOLEAN : sessions = <<>> /\ ConnectToHub(o, th)
    \/ \E s \in 1..Len(sessions) : SocketOpen(s)
    \/ \E s \in 1..Len(sessions) : HandshakeTimer(s)
    \/ \E s \in 1..Len(sessions) : SocketError(s)
    \/ \E s \in 1..Len(sessions) : SocketClose(s)
    \/ MonitorTick
    \/ \E s \in 1..Len(sessions), th \in BOOLEAN : ReconnectTimer(s, th)
    \/ Tick
    \/ AddHubStateUpdatedListener("h1")

SpecErrors == Init /\ [][ErrorNext]_vars

\* the frame {type: "pong"}
Pong == Frame("object", "pong", <<>>)

\* the frame {type: "stateUpdate", data: {foo: "1"}}
FooUpdate == Frame("object", "stateUpdate", << <<"foo", "1">> >>)

\* The listener registry: handlers, one of them one-shot, registered (also
\* twice) and removed around the emissions of one manually connected session.
ListenerNext ==
    \/ \E th \in BOOLEAN : sessions = <<>> /\ ConnectToHub(ManualOptions, th)
    \/ \E s \in 1..Len(sessions) : SocketOpen(s)
    \/ \E s \in 1..Len(sessions) : HandshakeTimer(s)
    \/ \E s \in 1..Len(sessions) : SocketMessage(s, FooUpdate)
    \/ MonitorTick
    \/ Tick
    \/ \E h \in {"h1"} \cup OneShotHandlers :
            Len(onUpdateCallbacks) < MaxRegistered /\ addHubStateUpdatedListener(h)
    \/ \E h \in {"h1"} \cup OneShotHandlers : RemoveHubStateUpdatedListener(h)

SpecListeners == Init /\ [][ListenerNext]_vars

\* Silence and resumption: one manually connected session whose socket stays
\* open, with a hub that may fall silent and then sends pongs and state
\* updates again.
ResumeNext ==
    \/ \E th \in BOOLEAN : sessions = <<>> /\ ConnectToHub(ManualOptions, th)
    \/ \E s \in 1..Len(sessions) : SocketOpen(s)
    \/ \E s \in 1..Len(sessions) : HandshakeTimer(s)
    \/ \E s \in 1..Len(sessions) : SocketMessage(s, Pong)
    \/ \E s \in 1..Len(sessions) : SocketMessage(s, FooUpdate)
    \/ MonitorTick
    \/ Tick
    \/ \E h \in Handlers : AddHubStateUpdatedListener(h)

SpecResume == Init /\ [][ResumeNext]_vars

\* Timers fire, time passes, and the hub goes on sending pongs on a socket
\* that is open.
ResumeFairness ==
    /\ TimerFairness
    /\ \A s \in 1..MaxSessions : WF_vars(s <= Len(sessions) /\ SocketMessage(s, Pong))

FairSpecResume == SpecResume /\ ResumeFairness

\* Queued updates: sendHubStateUpdate calls at any time around one manually
\* connected session that opens, goes online and closes.
UpdateNext ==
    \/ \E th \in BOOLEAN : sessions = <<>> /\ ConnectToHub(ManualOptions, th)
    \/ \E s \in 1..Len(sessions) : SocketOpen(s)
    \/ \E s \in 1..Len(sessions) : HandshakeTimer(s)
    \/ \E s \in 1..Len(sessions) : SocketClosing(s)
    \/ \E s \in 1..Len(sessions) : SocketClose(s)
    \/ MonitorTick
    \/ Tick
    \/ \E d \in UpdateData : SendHubStateUpdate(d)
    \/ \E u \in 1..Len(updates) : UpdateRetryTimer(u)

SpecUpdates == Init /\ [][UpdateNext]_vars

\* the props of <HubStateProvider> and of <HubStateProvider autoConnect={false}>
DefaultProps ==
    [port |-> DEFAULT_BB_HUB_PORT, autoConnect |-> TRUE, autoReconnect |-> TRUE]
UnconnectedProps ==
    [port |-> DEFAULT_BB_HUB_PORT, autoConnect |-> FALSE, autoReconnect |-> TRUE]

\* Mounting: HubStateProvider instances mounted, rendered and unmounted, and
\* the effects and cleanups React runs for them, around the sessions they
\* connect; the first instance may be rendered with other props while it is
\* the only one there has been.  The hub accepts the first socket, which
\* opens and goes online, and sends nothing, so that the monitor finds it
\* stale; later sockets stay CONNECTING.
MountNext ==
    \/ \E p \in ProviderProps : Mount(p)
    \/ \E m \in 1..Len(providers) : MountEffect(m, FALSE)
    \/ \E m \in 1..Len(providers) : Unmount(m)
    \/ \E m \in 1..Len(providers) : UnmountCleanup(m)
    \/ \E m \in 1..Len(providers) : Render(m)
    \/ \E p \in ProviderProps : Len(providers) = 1 /\ ChangeProps(1, p)
    \/ \E m \in 1..Len(providers) : UpdateEffect(m, FALSE)
    \/ sessions # <<>> /\ SocketOpen(1)
    \/ \E s \in 1..Len(sessions) : HandshakeTimer(s)
    \/ MonitorTick
    \/ Tick

SpecMounts == Init /\ [][MountNext]_vars

\* Providers: one HubStateProvider that connects and others mounted with
\* autoConnect={false}, mounted, rendered and unmounted, and the effects and
\* cleanups React runs for them, around the session that the first one makes.  The socket opens and goes online, and the hub
\* sends state updates on it.
ProviderNext ==
    \/ (\A m \in 1..Len(providers) : ~providers[m].autoConnect) /\ Mount(DefaultProps)
    \/ Mount(UnconnectedProps)
    \/ \E m \in 1..Len(providers) : MountEffect(m, FALSE)
    \/ \E m \in 1..Len(providers) : Unmount(m)
    \/ \E m \in 1..Len(providers) : UnmountCleanup(m)
    \/ \E m \in 1..Len(providers) : Render(m)
    \/ sessions # <<>> /\ SocketOpen(1)
    \/ \E s \in 1..Len(sessions) : HandshakeTimer(s)
    \/ sessions # <<>> /\ SocketMessage(1, FooUpdate)
    \/ MonitorTick
    \/ Tick

SpecProvider == Init /\ [][ProviderNext]_vars

\* Streaming: start() and stop() calls on one WebRTCClient at any time, with
\* every outcome of the browser's promises and of the POST.
RtcNext ==
    \/ RtcStart
    \/ RtcStop
    \/ \E c \in 1..Len(rtc.chains) : CreateOfferSettles(c)
    \/ \E c \in 1..Len(rtc.chains), ok \in BOOLEAN : SetLocalDescriptionSettles(c, ok)
    \/ \E p \in 1..Len(rtc.pcs), st \in {"gathering", "complete"} :
            IceGatheringStateChange(p, st)
    \/ \E c \in 1..Len(rtc.chains), o \in FetchOutcomes : FetchSettles(c, o)
    \/ \E c \in 1..Len(rtc.chains), ok \in BOOLEAN : JsonSettles(c, ok)
    \/ \E c \in 1..Len(rtc.chains), ok \in BOOLEAN : SetRemoteDescriptionSettles(c, ok)

SpecRtc == Init /\ [][RtcNext]_vars

\* Pan/tilt mapping: a position computed from angles and mapped back.
AngleNext == MapPanTiltToXYSquare \/ MapXYToPanTilt

SpecAngles == AngleInit /\ [][AngleNext]_vars

\* ------------------------------------------------------------------- claims

Status == hub_state["hubConnStatus"]

\* the sessions whose socket exists and has not closed
Live == {s \in 1..Len(sessions) : sessions[s].readyState \in {"CONNECTING", "OPEN"}}

\* C1: after any sequence of merged frames, every key of the mirror other than
\* the client-local status holds the value of the last frame that named it,
\* and a key that no frame named holds its initial value.
C1_MirrorIsShallowMerge ==
    /\ DOMAIN hub_state = DOMAIN DEFAULT_HUB_STATE \cup DOMAIN lastWrites
    /\ \A k \in DOMAIN hub_state \ {"hubConnStatus"} :
            hub_state[k] = IF k \in DOMAIN lastWrites THEN lastWrites[k]
                           ELSE DEFAULT_HUB_STATE[k]

\* the frame {foo:2, bar:3} and then {foo:1} have been merged: foo was
\* overwritten by the later frame, bar and hub_stats were kept
C1_Witness ==
    /\ DOMAIN lastWrites = {"foo", "bar"}
    /\ hub_state["foo"] = "1"
    /\ hub_state["bar"] = "3"
    /\ hub_state["hub_stats"] = "0"

\* C2: at most one socket created by the client is live at any time.
C2_AtMostOneLiveSocket == Cardinality(Live) <= 1

\* C3: when a reconnect timer fires and calls connectToHub, the status of the
\* mirror is "offline" at that moment.
C3_ReconnectOnlyWhenOffline ==
    [][\A s \in 1..Len(sessions) :
        ((\E th \in BOOLEAN : ReconnectTimer(s, th)) /\ Len(sessions') > Len(sessions))
            => Status = "offline"]_vars

\* C4: the status does not stay "online" once no frame has arrived for longer
\* than the staleness threshold and a further ping interval, in which a
\* monitor tick was due.
C4_StaleMeansOffline ==
    ~(Status = "online"
      /\ sinceHubUpdate > MIN_HUB_UPDATE_INTERVAL + HUB_PING_INTERVAL)

\* C5: processing a socket's close event while the status is "online" or
\* "connecting" leaves the status "offline".
C5_CloseSetsOffline ==
    [][\A s \in 1..Len(sessions) :
        (SocketClose(s) /\ Status \in {"online", "connecting"})
            => hub_state'["hubConnStatus"] = "offline"]_vars

\* C6: the status is one of the three values and every change of it is one of
\* offline->connecting, connecting->online, connecting->offline, online->offline.
C6_StatusTransitions ==
    [][/\ hub_state'["hubConnStatus"] \in {"offline", "connecting", "online"}
       /\ hub_state'["hubConnStatus"] # Status =>
            <<Status, hub_state'["hubConnStatus"]>> \in
                { <<"offline", "connecting">>, <<"connecting", "online">>,
                  <<"connecting", "offline">>, <<"online", "offline">> }]_vars

\* C7: with auto-reconnect enabled on every session, an offline client
\* eventually makes a new connection attempt: connectToHub is called again.
C7_OfflineLeadsToConnecting ==
    \A n \in 1..(MaxSessions - 1) :
        (/\ Status = "offline"
         /\ Len(sessions) = n
         /\ \A s \in 1..n : sessions[s].autoReconnect)
            ~> (Len(sessions) > n)

\* C8: when the handshake timer of a socket that opened fires, the status is
\* still "connecting", exactly the three handshake frames go out in order on
\* that socket, the status becomes "online" and every listener is notified once.
C8_HandshakeOnOpenedSocket ==
    [][\A s \in 1..Len(sessions) :
        HandshakeTimer(s) =>
            /\ Status = "connecting"
            /\ sent' = [i \in 1..3 |-> [s |-> s, type |-> HandshakeFrames[i]]]
            /\ hub_state'["hubConnStatus"] = "online"
            /\ Len(notified') = Len(onUpdateCallbacks)]_vars

\* C9: a full-state frame received on the current socket after the handshake
\* (the monitor is running, the status is "online") leaves every key/value of
\* the frame in the mirror and the status "online".
C9_StateFrameReachesMirror ==
    [][\A p \in Payloads :
        (/\ webSocket # 0
         /\ hubMonitor # NoTimer
         /\ Status = "online"
         /\ SocketMessage(webSocket, Frame("object", "state", p)))
            => /\ \A i \in 1..Len(p) :
                    /\ p[i][1] \in DOMAIN hub_state'
                    /\ hub_state'[p[i][1]] = p[i][2]
               /\ hub_state'["hubConnStatus"] = "online"]_vars

\* the calls whose promise is still pending
Pending == {c \in 1..Len(calls) : calls[c].resolutions = 0}

\* C10: every call has its own resolver in the queue until a full-state frame
\* arrives; that frame resolves each pending call once with its payload and
\* empties the queue, and no promise is resolved a second time.
C10_EachCallResolvedOnce ==
    /\ [](/\ \A c \in 1..Len(calls) : calls[c].resolutions <= 1
          /\ Range(hubStatePromises) = Pending
          /\ Len(hubStatePromises) = Cardinality(Pending))
    /\ [][\A s \in 1..Len(sessions), p \in Payloads :
            (hubStatePromises # <<>> /\ SocketMessage(s, Frame("object", "state", p)))
                => /\ hubStatePromises' = <<>>
                   /\ Len(resolved') = Len(hubStatePromises)
                   /\ \A c \in Pending : \E i \in 1..Len(resolved') :
                        resolved'[i] = [call |-> c, data |-> p]]_vars

\* one full-state frame has just resolved two pending calls that both
\* returned their promise
C10_Witness ==
    /\ Len(resolved) = 2
    /\ resolved[1].call # resolved[2].call
    /\ resolved[1].data = resolved[2].data
    /\ \A c \in 1..Len(calls) : calls[c].returned /\ calls[c].resolutions = 1
    /\ hubStatePromises = <<>>

\* C11: every emission invokes exactly the handlers registered when it
\* starts, once per registration and in registration order, also when a
\* handler changes the registry while it is notified.
C11_EmissionReachesEveryListener ==
    [][(\/ ConnectToHub(ManualOptions, FALSE)
        \/ \E s \in 1..Len(sessions) : HandshakeTimer(s) /\ ~threw'
        \/ \E s \in 1..Len(sessions) : SocketMessage(s, FooUpdate)
        \/ MonitorTick /\ hub_state' # hub_state)
            => [i \in 1..Len(notified') |-> notified'[i].h] = onUpdateCallbacks]_vars

\* C12: once removeHubStateUpdatedListener(h) has returned, h is in no
\* registry a later emission iterates over, however often it had been added.
C12_RemovedListenerIsGone ==
    [][\A h \in {"h1"} \cup OneShotHandlers :
        RemoveHubStateUpdatedListener(h) => h \notin Range(onUpdateCallbacks')]_vars

\* C13: while one listener is registered, the invocations a task makes are as
\* many as the changes of the status value it makes, or one if it merges a
\* frame into the mirror; no other notification fires.
C13_NotificationsMatchEvents ==
    [][(onUpdateCallbacks = <<"h1">> /\ onUpdateCallbacks' = <<"h1">>) =>
        LET seen == <<Status>> \o [i \in 1..Len(notified') |->
                                        notified'[i].state["hubConnStatus"]]
            changes == {i \in 1..Len(notified') : seen[i + 1] # seen[i]}
            merged == \E s \in 1..Len(sessions), p \in Payloads :
                        \/ SocketMessage(s, Frame("object", "stateUpdate", p))
                        \/ /\ hubStatePromises = <<>>
                           /\ SocketMessage(s, Frame("object", "state", p))
        IN  /\ hub_state'["hubConnStatus"] = seen[Len(seen)] \/ merged
            /\ Len(notified') = IF merged THEN 1 ELSE Cardinality(changes)]_vars

\* C14: the handler of a frame that is not valid JSON returns without
\* throwing, notifies no listener and leaves the mirror (with the status), the
\* pending-request queue, the listener registry and the sockets unchanged.
C14_MalformedFrameIsDropped ==
    [][\A s \in 1..Len(sessions) :
        SocketMessage(s, Frame("notjson", "", <<>>)) =>
            /\ ~threw'
            /\ notified' = <<>> /\ resolved' = <<>> /\ sent' = <<>>
            /\ UNCHANGED <<hub_state, hubStatePromises, calls, onUpdateCallbacks,
                           webSocket, sessions, hubMonitor>>]_vars

\* a malformed frame has just been handled on an online client with a
\* registered listener and a pending full-state request
C14_Witness ==
    /\ received = <<Frame("notjson", "", <<>>)>>
    /\ Status = "online"
    /\ onUpdateCallbacks # <<>>
    /\ hubStatePromises # <<>>
    /\ ~threw

\* C15: updateSharedState, addHubStateUpdatedListener and
\* removeHubStateUpdatedListener return without throwing in every state.
C15_ApiCallsDoNotThrow ==
    [][(\/ UpdateSharedState
        \/ \E h \in Handlers : AddHubStateUpdatedListener(h)
        \/ \E h \in Handlers : RemoveHubStateUpdatedListener(h)) => ~threw']_vars

\* C16: a connectToHub call whose setup throws, made directly or by the
\* reconnect timer, leaves the status "offline" with every listener notified
\* of it, no monitor timer, and a reconnect timer of 5000 ms exactly if
\* auto-reconnect is enabled for the call.
C16_SetupErrorGoesOffline ==
    [][\A o \in ConnectOptions \cup {ReconnectOptions(a) : a \in {"DEFAULT", "LOCAL"}} :
        (\/ ConnectToHub(o, TRUE)
         \/ \E s \in 1..Len(sessions) :
                /\ ReconnectTimer(s, TRUE)
                /\ Len(sessions') > Len(sessions)
                /\ o = ReconnectOptions(sessions[s].state))
        => LET new == sessions'[Len(sessions')]
               n == Len(onUpdateCallbacks)
           IN  /\ hub_state'["hubConnStatus"] = "offline"
               /\ Len(notified') = 2 * n
               /\ \A i \in (n + 1)..(2 * n) :
                    notified'[i].state["hubConnStatus"] = "offline"
               /\ hubMonitor' = NoTimer
               /\ new.readyState = "NONE"
               /\ new.reconnectTimer =
                    IF o.autoReconnect THEN RECONNECT_DELAY ELSE NoTimer]_vars

\* a second connectToHub call has just thrown while the first socket was
\* open with its monitor running: the listener heard "connecting" and then
\* "offline", the monitor is stopped and the reconnect timer is set
C16_Witness ==
    /\ Len(sessions) = 2
    /\ sessions[1].readyState = "OPEN" /\ sessions[1].hasSent
    /\ sessions[2].readyState = "NONE"
    /\ sessions[2].reconnectTimer = RECONNECT_DELAY
    /\ Status = "offline"
    /\ hubMonitor = NoTimer
    /\ Len(notified) = 2
    /\ notified[2].state["hubConnStatus"] = "offline"

\* C17: updateSharedState sends exactly one updateState frame, leaves the
\* mirror (with the status) and the listener registry unchanged and invokes
\* no listener; the mirror only ever holds keys that a merged frame wrote.
C17_UpdateIsNotOptimistic ==
    /\ [](DOMAIN hub_state = DOMAIN DEFAULT_HUB_STATE \cup DOMAIN lastWrites)
    /\ [][UpdateSharedState =>
            /\ UNCHANGED <<hub_state, onUpdateCallbacks, lastWrites>>
            /\ notified' = <<>>
            /\ Len(sent') = 1
            /\ sent'[1].type = "updateState"]_vars

\* C18: a close event sets one reconnect timer of 5000 ms if auto-reconnect
\* is enabled and none otherwise; when that timer fires with the status
\* "offline" it makes exactly one new connection attempt and is spent; and
\* after the user's call, a new attempt is only ever made by the timer of a
\* session with auto-reconnect enabled.
C18_OneReconnectPerClose ==
    /\ [](\A s \in 1..Len(sessions) :
            sessions[s].reconnectTimer # NoTimer => sessions[s].autoReconnect)
    /\ [][\A s \in 1..Len(sessions) :
            /\ SocketClose(s) =>
                    sessions'[s].reconnectTimer =
                        IF sessions[s].autoReconnect THEN RECONNECT_DELAY
                        ELSE NoTimer
            /\ ((\E th \in BOOLEAN : ReconnectTimer(s, th)) /\ Status = "offline")
                    => /\ Len(sessions') = Len(sessions) + 1
                       /\ sessions'[s].reconnectTimer = NoTimer]_vars
    /\ [][(sessions # <<>> /\ Len(sessions') > Len(sessions))
            => /\ Len(sessions') = Len(sessions) + 1
               /\ \E r \in 1..Len(sessions) :
                    /\ sessions[r].autoReconnect
                    /\ sessions[r].reconnectTimer = 0
                    /\ sessions'[r].reconnectTimer = NoTimer]_vars

\* 5000 ms after the close of a socket that had gone online and then stale,
\* its reconnect timer is due, the status is "offline" and no other attempt
\* was made
C18_Witness ==
    /\ Len(sessions) = 1
    /\ sessions[1].readyState = "CLOSED" /\ sessions[1].hasSent
    /\ sessions[1].autoReconnect
    /\ sessions[1].reconnectTimer = 0
    /\ Status = "offline"

\* C19: the staleness threshold is at least one and a half ping intervals,
\* and a monitor tick changes the status only from "online" to "offline" and
\* only when more than the threshold has passed since the last inbound frame
\* or the open event.
C19_OfflineOnlyOnProvenSilence ==
    /\ [](2 * MIN_HUB_UPDATE_INTERVAL >= 3 * HUB_PING_INTERVAL)
    /\ [][(MonitorTick /\ hub_state' # hub_state) =>
            /\ Status = "online"
            /\ hub_state' = setHubConnStatus(hub_state, "offline")
            /\ sinceHubUpdate > MIN_HUB_UPDATE_INTERVAL]_vars

\* a monitor tick has just sent its ping, found the hub silent for more than
\* the threshold and told the listener that the status is "offline"
C19_Witness ==
    /\ Status = "offline"
    /\ hubMonitor = HUB_PING_INTERVAL
    /\ sent = <<[s |-> 1, type |-> "ping"]>>
    /\ sinceHubUpdate > MIN_HUB_UPDATE_INTERVAL
    /\ Len(notified) = 1
    /\ notified[1].state["hubConnStatus"] = "offline"

\* C20: handling an inbound state or stateUpdate frame leaves the
\* connection status as it was, whatever keys the frame's data has.
C20_StatusIsClientLocal ==
    [][\A s \in 1..Len(sessions), p \in Payloads, t \in {"state", "stateUpdate"} :
        SocketMessage(s, Frame("object", t, p))
            => hub_state'["hubConnStatus"] = Status]_vars

\* C21: sendHubStateUpdate(data) with the socket OPEN sends one updateState
\* frame with data at once and sets no timer; otherwise it sends nothing and
\* sets one timer of 1000 ms, whose callback sends the frame exactly if the
\* socket is OPEN then and is not run again; no call ever makes more than one
\* send, throws, or sends on a socket that is not OPEN.
C21_UpdateSentAtMostOnce ==
    /\ [](\A u \in 1..Len(updates) :
            /\ Len(updates[u].sends) <= 1
            /\ updates[u].timer # NoTimer => updates[u].queued /\ updates[u].sends = <<>>
            /\ \A i \in 1..Len(updates[u].sends) :
                    updates[u].sends[i] = [readyState |-> "OPEN", data |-> updates[u].data])
    /\ [][\A d \in UpdateData : SendHubStateUpdate(d) =>
            LET new == updates'[Len(updates')]
            IN  /\ ~threw'
                /\ new.data = d
                /\ IF webSocket # 0 /\ sessions[webSocket].readyState = "OPEN"
                   THEN /\ sent' = <<[s |-> webSocket, type |-> "updateState"]>>
                        /\ Len(new.sends) = 1 /\ new.timer = NoTimer
                   ELSE /\ sent' = <<>>
                        /\ new.sends = <<>> /\ new.timer = UPDATE_RETRY_DELAY]_vars
    /\ [][\A u \in 1..Len(updates) :
            /\ UpdateRetryTimer(u) =>
                    /\ ~threw'
                    /\ updates'[u].timer = NoTimer
                    /\ IF webSocket # 0 /\ sessions[webSocket].readyState = "OPEN"
                       THEN /\ sent' = <<[s |-> webSocket, type |-> "updateState"]>>
                            /\ Len(updates'[u].sends) = 1
                       ELSE sent' = <<>> /\ updates'[u].sends = <<>>
            /\ updates[u].timer = NoTimer => updates'[u].timer = NoTimer
            /\ updates'[u].timer = UPDATE_RETRY_DELAY =>
                    updates[u].timer = UPDATE_RETRY_DELAY]_vars

\* an update made while the socket was still connecting has just been sent
\* by its retry on the socket that opened meanwhile, after an update that was
\* queued before connectToHub found no open socket at its retry
C21_Witness ==
    /\ Len(updates) = 2
    /\ updates[1].queued /\ updates[1].timer = NoTimer /\ updates[1].sends = <<>>
    /\ updates[2].queued /\ updates[2].timer = NoTimer /\ Len(updates[2].sends) = 1
    /\ sent = <<[s |-> 1, type |-> "updateState"]>>

\* C22: mounting a HubStateProvider commits one instance with the props
\* given and one effect run to come, and calls nothing of the hub-state
\* client; that effect run registers exactly one listener, a handler of its
\* own, and calls connectToHub once with the provider's port and
\* autoReconnect and DEFAULT_HUB_STATE if autoConnect is true, and not at all
\* if autoConnect is false; and it is run once.
C22_MountRegistersAndConnects ==
    /\ [][\A p \in ProviderProps :
            Mount(p) =>
                /\ Len(providers') = Len(providers) + 1
                /\ PropsOf(providers'[Len(providers')]) = p
                /\ providers'[Len(providers')].effects = "mount"
                /\ UNCHANGED <<onUpdateCallbacks, sessions, webSocket, hub_state>>]_vars
    /\ [][\A m \in 1..Len(providers) :
            MountEffect(m, FALSE) =>
                LET handler == handleHubStateUpdate(providers'[m].run)
                    p == providers[m]
                IN  /\ handler \notin Range(onUpdateCallbacks)
                    /\ onUpdateCallbacks' = Append(onUpdateCallbacks, handler)
                    /\ providers'[m].effects = "none"
                    /\ IF p.autoConnect
                       THEN /\ Len(sessions') = Len(sessions) + 1
                            /\ SubSeq(sessions', 1, Len(sessions)) = sessions
                            /\ sessions'[Len(sessions')] =
                                    Session([port |-> p.port, state |-> "DEFAULT",
                                             autoReconnect |-> p.autoReconnect],
                                            "CONNECTING", NoTimer)
                       ELSE UNCHANGED <<sessions, webSocket, hub_state>>]_vars
    /\ [][\A m \in 1..Len(providers) :
            providers'[m].effects = "mount" => providers[m].effects = "mount"]_vars

\* three providers are mounted and their effects have run: the default one
\* connected to port 5100 with auto-reconnect, the one with port={5200}
\* autoReconnect={false} connected so, and the one with autoConnect={false}
\* made no session
C22_Witness ==
    /\ Len(providers) = 3
    /\ \A m \in 1..3 : providers[m].mounted /\ providers[m].effects = "none"
    /\ ~providers[3].autoConnect
    /\ Len(sessions) = 2
    /\ sessions[1].port = DEFAULT_BB_HUB_PORT /\ sessions[1].autoReconnect
    /\ sessions[2].port = CUSTOM_PORT /\ ~sessions[2].autoReconnect
    /\ Len(onUpdateCallbacks) = 3

\* the provider instances that are mounted
Mounted == {m \in 1..Len(providers) : providers[m].mounted}

\* the provider instances whose effect has run and whose cleanup has not
Subscribed ==
    {m \in 1..Len(providers) :
        /\ providers[m].run # 0
        /\ providers[m].mounted \/ providers[m].effects = "unmount"}

\* C23: unmounting a provider calls nothing of the hub-state client at the
\* commit, and the cleanup that React runs for it removes the provider's own
\* handler from the registry and nothing else; both leave the socket, the
\* sessions, the monitor, the mirror with the status and the pending requests
\* as they are.  The registry holds exactly one handler for every provider
\* whose effect has run and whose cleanup has not, so that whenever React has
\* no effect left to run it holds exactly one handler for every mounted
\* provider.
C23_UnmountOnlyRemovesListener ==
    /\ [](/\ Len(onUpdateCallbacks) = Cardinality(Subscribed)
          /\ Range(onUpdateCallbacks) =
                {handleHubStateUpdate(providers[m].run) : m \in Subscribed}
          /\ NoEffectPending => Subscribed = Mounted)
    /\ [][\A m \in 1..Len(providers) :
            /\ Unmount(m) =>
                    /\ providers'[m].effects = "unmount"
                    /\ notified' = <<>>
                    /\ UNCHANGED <<onUpdateCallbacks, webSocket, sessions, hubMonitor,
                                   hub_state, hubStatePromises>>
            /\ UnmountCleanup(m) =>
                    LET handler == handleHubStateUpdate(providers[m].run)
                    IN  /\ handler \in Range(onUpdateCallbacks)
                        /\ onUpdateCallbacks' =
                                SelectSeq(onUpdateCallbacks, LAMBDA h : h # handler)
                        /\ providers'[m].effects = "none"
                        /\ notified' = <<>>
                        /\ UNCHANGED <<webSocket, sessions, hubMonitor, hub_state,
                                       hubStatePromises>>]_vars

\* the provider that connected has been unmounted and its cleanup has just
\* run while its socket is open, the status "online" and the monitor running;
\* the other provider's handler is the only one left
C23_Witness ==
    /\ Len(providers) = 2
    /\ Mounted = {2}
    /\ NoEffectPending
    /\ providers[1].run # 0
    /\ onUpdateCallbacks = <<handleHubStateUpdate(providers[2].run)>>
    /\ webSocket = 1 /\ sessions[1].readyState = "OPEN"
    /\ Status = "online"
    /\ hubMonitor # NoTimer

\* C24: every task that changes the mirror, by a change of the status or by
\* a merged frame, leaves every mounted provider with an enqueued state
\* update that has the mirror's keys and values; an enqueued update always
\* equals the mirror; and the render that React has scheduled for it makes
\* it the hubState the provider exposes, equal to the mirror at that moment.
C24_ProviderShowsMirror ==
    /\ [](\A m \in Mounted :
            providers[m].queued # <<>> => providers[m].queued = <<hub_state>>)
    /\ [][hub_state' # hub_state =>
            \A m \in 1..Len(providers') :
                providers'[m].mounted => providers'[m].queued = <<hub_state'>>]_vars
    /\ [][\A m \in 1..Len(providers) :
            Render(m) => /\ providers'[m].hubState = hub_state'
                         /\ providers'[m].queued = <<>>]_vars

\* C25: the negotiation of a start() call POSTs at most once, and what it
\* POSTs is the local description of a connection whose iceGatheringState is
\* "complete" at that moment; setRemoteDescription is called only by a
\* negotiation whose POST got an ok response.
C25_OfferPostedOnceAfterGathering ==
    /\ [](\A c \in 1..Len(rtc.chains) :
            /\ rtc.chains[c].posts <= 1
            /\ Len(rtc.chains[c].posted) = rtc.chains[c].posts
            /\ \A i \in 1..Len(rtc.chains[c].posted) :
                    /\ rtc.chains[c].posted[i].ice = "complete"
                    /\ rtc.chains[c].posted[i].offer # 0
            /\ rtc.chains[c].answered # 0 =>
                    rtc.chains[c].posts = 1 /\ rtc.chains[c].response = "ok")
    /\ [](\A p \in 1..Len(rtc.pcs) :
            rtc.pcs[p].remote =
                Cardinality({c \in 1..Len(rtc.chains) : rtc.chains[c].answered = p}))
    /\ [][\A c \in 1..Len(rtc.chains) :
            rtc.chains[c].posts = 1 => rtc'.chains[c].posted = rtc.chains[c].posted]_vars

\* the first session was stopped after its answer was set; the second one
\* waited for gathering on its own connection, posted its offer once and got
\* a response that was not ok, so no remote description was set
C25_Witness ==
    /\ Len(rtc.chains) = 2
    /\ rtc.chains[1].step = "done" /\ rtc.chains[1].answered = 1
    /\ rtc.pcs[1].remote = 1 /\ rtc.pcs[1].closed
    /\ rtc.chains[2].posts = 1 /\ rtc.chains[2].posted[1].pc = 2
    /\ rtc.chains[2].response = "notok"
    /\ rtc.pcs[2].remote = 0

\* C26: with indicatorRadius 0, mapXYToPanTilt applied to the coordinates
\* that mapPanTiltToXYSquare returns for (pan, tilt) returns (pan, tilt), for
\* every servo configuration with max_angle > min_angle.
C26_XYToPanTiltInvertsPanTiltToXY ==
    (angles # <<>> /\ angles.indicatorRadius = 0 /\ angles.panTilt # <<>>)
        => angles.panTilt = <<Num(angles.panAngle), Num(angles.tiltAngle)>>

\* C27: a full-state frame that arrives while requests are pending resolves
\* them and leaves the mirror and the registry as they are, with no listener
\* notified; one that arrives with no request pending is merged into the
\* mirror key by key and every listener is notified once with the result,
\* as for a stateUpdate frame.
C27_StateFrameGoesToCallersOnly ==
    [][\A s \in 1..Len(sessions), p \in Payloads :
        SocketMessage(s, Frame("object", "state", p)) =>
            IF hubStatePromises # <<>>
            THEN /\ UNCHANGED <<hub_state, lastWrites, onUpdateCallbacks>>
                 /\ notified' = <<>>
                 /\ Len(resolved') = Len(hubStatePromises)
            ELSE /\ DOMAIN hub_state' = DOMAIN hub_state \cup KeysOf(p)
                 /\ \A k \in DOMAIN hub_state' :
                        hub_state'[k] = IF k \in KeysOf(p) THEN ValueOf(p, k)
                                        ELSE hub_state[k]
                 /\ notified' = [i \in 1..Len(onUpdateCallbacks) |->
                                    [h |-> onUpdateCallbacks[i], state |-> hub_state']]
                 /\ resolved' = <<>>]_vars

\* a full-state frame has just resolved a pending request on an online client
\* with a listener: the mirror still has its initial keys and nobody was
\* notified
C27_Witness ==
    /\ Len(received) = 1 /\ received[1].type = "state"
    /\ Len(resolved) = 1
    /\ Status = "online"
    /\ onUpdateCallbacks # <<>>
    /\ notified = <<>>
    /\ DOMAIN hub_state = DOMAIN DEFAULT_HUB_STATE
    /\ hub_state["hub_stats"] = "0"

\* C28: a monitor tick sends a ping exactly if the socket is OPEN and the
\* status is "online"; no ping is sent while the status is "offline" or
\* "connecting".
C28_PingOnlyWhileOnline ==
    [][MonitorTick =>
        ((\E i \in 1..Len(sent') : sent'[i].type = "ping")
            <=> (/\ webSocket # 0
                 /\ sessions[webSocket].readyState = "OPEN"
                 /\ Status = "online"))]_vars

\* C29: the monitor timer is set, where there was none, only by a handshake
\* that has just set the status "online"; a tick that finds no socket or a
\* socket that is not OPEN stops the monitor without a ping or a change of
\* the mirror; a connectToHub call whose setup throws leaves no monitor; and
\* while there is no monitor timer no tick runs and no ping is sent.
C29_MonitorRunsOnlyAfterHandshake ==
    /\ [][(hubMonitor = NoTimer /\ hubMonitor' # NoTimer) =>
            /\ \E s \in 1..Len(sessions) : HandshakeTimer(s)
            /\ hub_state'["hubConnStatus"] = "online"
            /\ hubMonitor' = HUB_PING_INTERVAL]_vars
    /\ [][(/\ MonitorTick
           /\ webSocket = 0 \/ sessions[webSocket].readyState # "OPEN") =>
            /\ hubMonitor' = NoTimer
            /\ sent' = <<>>
            /\ hub_state' = hub_state]_vars
    /\ [][(/\ Len(sessions') > Len(sessions)
           /\ sessions'[Len(sessions')].readyState = "NONE") =>
            hubMonitor' = NoTimer]_vars
    /\ [][hubMonitor = NoTimer =>
            /\ ~MonitorTick
            /\ \A i \in 1..Len(sent') : sent'[i].type # "ping"]_vars

\* the first socket went online and its monitor ran; a second connectToHub
\* call replaced the socket, and the tick that found the new socket still
\* CONNECTING stopped the monitor
C29_Witness ==
    /\ Len(sessions) = 2
    /\ sessions[1].readyState = "OPEN" /\ sessions[1].hasSent
    /\ webSocket = 2 /\ sessions[2].readyState = "CONNECTING"
    /\ Status = "connecting"
    /\ hubMonitor = NoTimer
    /\ sinceHubUpdate >= HUB_PING_INTERVAL

\* C30: handling a socket's error event leaves the status and the mirror,
\* the monitor timer, the pending requests, the registry, the socket and
\* every session with its timers as they are (the failed socket is CLOSED by
\* then), notifies no listener, sends nothing and does not throw; what
\* follows it is the close event of the same socket, and a reconnect timer
\* of a session is only ever set by that session's close event.
C30_ErrorOnlyLogs ==
    /\ [][(\/ received' = <<ErrorEvent>>
           \/ \E s \in 1..Len(sessions) : SocketError(s)) =>
            /\ UNCHANGED <<hub_state, hubMonitor, hubStatePromises, onUpdateCallbacks,
                           webSocket, calls, intervals>>
            /\ \E s \in 1..Len(sessions) :
                    /\ sessions[s].readyState # "CLOSED"
                    /\ sessions' = [sessions EXCEPT ![s].readyState = "CLOSED"]
                    /\ closePending' = s
            /\ notified' = <<>> /\ sent' = <<>> /\ ~threw']_vars
    /\ [][closePending # 0 => SocketClose(closePending)]_vars
    /\ [][\A s \in 1..Len(sessions) :
            (sessions[s].reconnectTimer = NoTimer /\ sessions'[s].reconnectTimer # NoTimer)
                => SocketClose(s)]_vars

\* an error event has just been handled on the socket of an online client
\* with auto-reconnect, a listener and a running monitor: the socket is
\* CLOSED, its close event is still to come and no reconnect is scheduled
C30_Witness ==
    /\ received = <<ErrorEvent>>
    /\ Status = "online"
    /\ hubMonitor # NoTimer
    /\ onUpdateCallbacks # <<>>
    /\ webSocket = 1 /\ sessions[1].readyState = "CLOSED" /\ sessions[1].hasSent
    /\ closePending = 1
    /\ sessions[1].autoReconnect /\ sessions[1].reconnectTimer = NoTimer

\* C31: every listener invocation of a task is given the mirror with the
\* whole mutation that caused it: the mirror as the task leaves it, holding
\* every key of the merged frame, or, in a connectToHub call whose setup
\* throws, the mirror with the status "connecting" for the invocations that
\* precede those for "offline"; and every handler that is registered when a
\* task mutates the mirror is invoked within that task.
C31_ListenersSeeWholeMutation ==
    /\ [](\A i \in 1..Len(notified) :
            LET st == notified[i].state
            IN  /\ \/ st = hub_state
                   \/ /\ sessions # <<>> /\ sessions[Len(sessions)].readyState = "NONE"
                      /\ st = setHubConnStatus(hub_state, "connecting")
                      /\ \A j \in 1..i : notified[j].state = st
                /\ received # <<>> =>
                        \A k \in KeysOf(received[1].data) :
                            k \in DOMAIN st /\ st[k] = ValueOf(received[1].data, k))
    /\ [][hub_state' # hub_state =>
            \A h \in Range(onUpdateCallbacks) :
                \E i \in 1..Len(notified') : notified'[i].h = h]_vars

\* C32: the handshake timer of a socket sets the status "online" only if
\* that socket is still the client's current socket and is OPEN, and it puts
\* frames on no other socket.
C32_OnlineOnlyForOpenedSocket ==
    [][\A s \in 1..Len(sessions) :
        HandshakeTimer(s) =>
            /\ ~threw' => webSocket = s /\ sessions[s].readyState = "OPEN"
            /\ \A i \in 1..Len(sent') : sent'[i].s = s]_vars

\* C33: once the monitor has set the status "offline" on a socket that stays
\* open, frames that keep arriving on that socket bring the status back to
\* "online".

C33_ResumedFramesLeadToOnline ==
    (/\ Status = "offline"
     /\ webSocket # 0
     /\ sessions[webSocket].readyState = "OPEN"
     /\ hubMonitor # NoTimer)
        ~> (Status = "online")

\* C34: the connectToHub call made by a session's reconnect timer uses the
\* port and the auto-reconnect setting of that session.
C34_ReconnectKeepsOptions ==
    [][\A s \in 1..Len(sessions) :
        (/\ \E th \in BOOLEAN : ReconnectTimer(s, th)
         /\ Len(sessions') > Len(sessions)) =>
            /\ sessions'[Len(sessions')].port = sessions[s].port
            /\ sessions'[Len(sessions')].autoReconnect = sessions[s].autoReconnect]_vars

\* C35: at most one monitor interval is active at any time, whatever
\* connects, setup errors, handshakes, failures, closes and reconnects there
\* have been, and it is active exactly while the client holds its handle; so
\* the handshake that starts the monitor clears the interval that was running.
C35_OneMonitorInterval ==
    /\ intervals <= 1
    /\ intervals = 1 <=> hubMonitor # NoTimer

\* the first socket carried its handshake and has closed; the handshake of a
\* second socket, opened by another connectToHub call, has just run on it
\* and started the monitor: one interval is active
C35_Witness ==
    /\ Len(sessions) = 2
    /\ sessions[1].readyState = "CLOSED" /\ sessions[1].hasSent
    /\ sessions[1].reconnectTimer # NoTimer
    /\ sessions[2].readyState = "OPEN" /\ sessions[2].openTimer = NoTimer
    /\ sent = [i \in 1..3 |-> [s |-> 2, type |-> HandshakeFrames[i]]]
    /\ sinceHubUpdate = HANDSHAKE_DELAY
    /\ hubMonitor = HUB_PING_INTERVAL
    /\ intervals = 1

\* C36: updateState frames go out in the order of their sendHubStateUpdate
\* calls: when the frame of a call is sent, no later call has sent its frame.
C36_UpdatesSentInCallOrder ==
    [][\A u, v \in 1..Len(updates) :
        (u < v /\ Len(updates'[u].sends) > Len(updates[u].sends)) =>
            updates[v].sends = <<>>]_vars

\* C37: every resolver in the pending-request queue belongs to a
\* getStateFromCentralHub call that returned its promise, its getState frame
\* sent; a call that threw leaves no resolver behind.
C37_QueueHoldsOnlySentRequests ==
    \A i \in 1..Len(hubStatePromises) : calls[hubStatePromises[i]].returned

\* C38: a frame that parses as JSON and is not a state or stateUpdate
\* message (a pong, an unknown type, null) is handled without throwing; it
\* leaves the mirror, the pending requests and the registry as they are and
\* notifies and resolves nobody.
C38_OtherFramesAreIgnored ==
    [][\A s \in 1..Len(sessions) :
        \A f \in {g \in Frames : g.raw # "notjson" /\ g.type \notin {"state", "stateUpdate"}} :
            SocketMessage(s, f) =>
                /\ ~threw'
                /\ notified' = <<>> /\ resolved' = <<>> /\ sent' = <<>>
                /\ UNCHANGED <<hub_state, hubStatePromises, onUpdateCallbacks, calls,
                               hubMonitor, webSocket, sessions>>]_vars

\* C39: a negotiation posts offers of, and sets the remote description on,
\* only the peer connection its own start() made, and every peer connection
\* other than the client's current one has been closed.
C39_NegotiationKeepsItsConnection ==
    /\ \A c \in 1..Len(rtc.chains) :
            /\ rtc.chains[c].answered \in {0, rtc.chains[c].pc}
            /\ \A i \in 1..Len(rtc.chains[c].posted) :
                    rtc.chains[c].posted[i].pc = rtc.chains[c].pc
    /\ \A p \in 1..Len(rtc.pcs) : p # rtc.pc => rtc.pcs[p].closed

====
